---- MODULE Spec2Model ----
(***************************************************************************)
(* Model of the consolidated trading book of orderbook-server              *)
(* (src/src/aggregator.rs, src/src/core.rs): AggregateBook, its two        *)
(* AggregateBookSide's, the per-level update strategy                      *)
(* AggregateBookSideUpdateStrategy::apply, and the best-level projection.  *)
(*                                                                         *)
(* Indices are 0-based as in the source: side.data[i] of the source is     *)
(* side.data[i + 1] here.  Option<Decimal> is a sequence of length <= 1.   *)
(* A panic (failed assert!) is a result flag; a book whose update panicked *)
(* is dropped with its task and takes no further update.                   *)
(*                                                                         *)
(* The module also models the Summary projection of the book               *)
(* (src/src/service.rs), the exchange session tasks with their data and    *)
(* command channels and the multiplexed stream (src/src/exchange.rs), and  *)
(* the per-subscriber fan-out task (src/src/server.rs).  Spec drives the   *)
(* book alone, ServiceSpec the book with its summaries, PipelineSpec the   *)
(* sessions, multiplexer, fan-out task and subscriber with every kind of   *)
(* frame, and MuxSpec the multiplexer with numbered updates.               *)
(* FaultyMuxSpec adds failing transports to the numbered updates,          *)
(* DecoderSpec drives the decoder of the Bitstamp text frames              *)
(* (src/src/bitstamp.rs) and ServerSpec the clients that call              *)
(* book_summary, each with the book and sessions the call creates.         *)
(* ConstructorSpec applies AggregateBookSide::new to lists of levels,      *)
(* FatalPipelineSpec is FairPipelineSpec with updates that fail an         *)
(* assertion of the book, and DecoderSpec also drives the Binance decoder  *)
(* (src/src/binance.rs).                                                   *)
(***************************************************************************)
EXTENDS Integers, Sequences, FiniteSets, TLC

\* ---------------------------------------------------------------- bounds
\* Prices are 1..MaxPrice, amounts 1..MaxAmount.
MaxPrice == 2
MaxAmount == 2
\* Longest side of one snapshot.
MaxSnapLen == 2
\* Largest max_levels an AggregateBook is created with.
MaxDepth == 2
\* Most updates one service pulls from its update stream.
MaxPulls == 2
\* Most exchange adapters of one server (main builds two): MaxSessions where
\* only snapshots arrive, MaxPipelineSessions where every kind of frame does.
MaxSessions == 3
MaxPipelineSessions == 2
\* Capacity the model gives a session's data channel and the subscriber's
\* Summary channel (mpsc::channel(16) and mpsc::channel(128) in the source).
DataCapacity == 2
SummaryCapacity == 1
\* The updates one session decodes are numbered modulo SeqCycle (modulo
\* FairSeqCycle where fairness is assumed).
SeqCycle == 3
FairSeqCycle == 2
\* Most [price, amount] pairs in the bids of one Bitstamp frame, and in its asks.
MaxFrameBids == 3
MaxFrameAsks == 1
\* Most clients that call book_summary, and most updates the service of one
\* of them pulls.
MaxSubscribers == 2
MaxSubscriberPulls == 1
\* A side is constructed from at most MaxListLen levels of prices
\* 1..MaxListPrice.
MaxListLen == 3
MaxListPrice == 3

Exchanges == {"binance", "bitstamp"}
Prices == 1..MaxPrice
Amounts == 1..MaxAmount

\* ---------------------------------------------------------------- core.rs
\* ExchangeLevel { exchange_code, price, amount }
ExchangeLevel(e, p, a) == [exchange_code |-> e, price |-> p, amount |-> a]

\* Option<Decimal>
None == <<>>
Some(x) == <<x>>

\* ---------------------------------------------------------------- AggregateLevel
\* Mutation of AggregateLevel::from_level: the entry is stored under the key
\* of one fixed exchange.
from_level_under_fixed_key(level) ==
    [price |-> level.price,
     exchange_levels |-> ("binance" :> level)]

\* AggregateLevel::from_level
from_level(level) ==
    [price |-> level.price,
     exchange_levels |-> (level.exchange_code :> level)]

\* Mutation of the assertion of AggregateLevel::update: it requires that the
\* level has no entry of the exchange yet.
AggregateLevel_update_asserts_no_entry(al, level) ==
    level.exchange_code \in DOMAIN al.exchange_levels

\* AggregateLevel::update: assert_eq!(self.price, level.price) fails
AggregateLevel_update_panics(al, level) == al.price # level.price

\* Mutation of AggregateLevel::update: the map is replaced, not extended.
AggregateLevel_update_replacing_map(al, level) ==
    [al EXCEPT !.exchange_levels = (level.exchange_code :> level)]

\* Mutation of AggregateLevel::update: the amount is added to the amount of a
\* prior entry of the same exchange.
AggregateLevel_update_adding_amount(al, level) ==
    [al EXCEPT !.exchange_levels =
        [k \in (DOMAIN al.exchange_levels) \cup {level.exchange_code} |->
            IF k # level.exchange_code THEN al.exchange_levels[k]
            ELSE IF k \in DOMAIN al.exchange_levels
                 THEN [level EXCEPT !.amount = @ + al.exchange_levels[k].amount]
                 ELSE level]]

\* AggregateLevel::update once the assertion passed: HashMap::insert
AggregateLevel_update(al, level) ==
    [al EXCEPT !.exchange_levels =
        [k \in (DOMAIN al.exchange_levels) \cup {level.exchange_code} |->
            IF k = level.exchange_code THEN level ELSE al.exchange_levels[k]]]

\* Mutation of AggregateLevel::remove: HashMap::clear instead of remove.
AggregateLevel_remove_every_exchange(al, exchange_code) ==
    [al EXCEPT !.exchange_levels = [k \in {} |-> k]]

\* AggregateLevel::remove: HashMap::remove
AggregateLevel_remove(al, exchange_code) ==
    [al EXCEPT !.exchange_levels =
        [k \in (DOMAIN al.exchange_levels) \ {exchange_code} |-> al.exchange_levels[k]]]

\* ---------------------------------------------------------------- AggregateBookSide
\* AggregateBookSide::is_before
is_before(side, price_a, price_b) ==
    IF side.ordering = "LessFirst" THEN price_a < price_b ELSE price_a > price_b

\* Vec::insert(index, element), 0-based index
VecInsert(v, index, x) ==
    SubSeq(v, 1, index) \o <<x>> \o SubSeq(v, index + 1, Len(v))

\* Mutation of the compaction: nothing is removed.
VecRetainEverything(v) == v

\* Vec::retain(|level| !level.exchange_levels.is_empty())
RECURSIVE VecRetainNonEmpty(_)
VecRetainNonEmpty(v) ==
    IF v = <<>> THEN <<>>
    ELSE IF DOMAIN Head(v).exchange_levels = {}
         THEN VecRetainNonEmpty(Tail(v))
         ELSE <<Head(v)>> \o VecRetainNonEmpty(Tail(v))

\* Mutation of AggregateBookSideUpdateStrategy::new: the cursor starts at 1.
Strategy_new_at_one == [current_index |-> 1, prev_update_price |-> None]

\* AggregateBookSideUpdateStrategy::new
Strategy_new == [current_index |-> 0, prev_update_price |-> None]

\* Mutation of drain: the entry of one level is withdrawn and the loop is left.
drain_one_level(side, current_index, level_update) ==
    IF is_before(side, side.data[current_index + 1].price, level_update.price)
    THEN [side |-> [side EXCEPT !.data[current_index + 1] =
                       AggregateLevel_remove(@, level_update.exchange_code)],
          current_index |-> current_index + 1]
    ELSE [side |-> side, current_index |-> current_index]

\* Mutation of drain: the levels before the update price are passed over and
\* keep their entries of the update's exchange.
RECURSIVE drain_without_withdrawing(_, _, _)
drain_without_withdrawing(side, current_index, level_update) ==
    IF is_before(side, side.data[current_index + 1].price, level_update.price)
    THEN IF current_index + 1 = Len(side.data)
         THEN [side |-> side, current_index |-> current_index + 1]
         ELSE drain_without_withdrawing(side, current_index + 1, level_update)
    ELSE [side |-> side, current_index |-> current_index]

\* The while loop of apply's last branch: withdraw the update's exchange from
\* every level before the update price, stopping at the end of the side.
RECURSIVE drain(_, _, _)
drain(side, current_index, level_update) ==
    IF is_before(side, side.data[current_index + 1].price, level_update.price)
    THEN LET side1 == [side EXCEPT !.data[current_index + 1] =
                          AggregateLevel_remove(@, level_update.exchange_code)]
             i1 == current_index + 1
         IN IF i1 = Len(side1.data)
            THEN [side |-> side1, current_index |-> i1]
            ELSE drain(side1, i1, level_update)
    ELSE [side |-> side, current_index |-> current_index]

\* Mutation of the ordering assertion: it never fails.
update_order_never_checked(st, side, level_update) == FALSE

\* The assertion at the head of apply fails: the update level is before the
\* previous level of the same snapshot.
update_out_of_order(st, side, level_update) ==
    /\ st.prev_update_price # None
    /\ is_before(side, level_update.price, st.prev_update_price[1])

\* Mutation of apply: a level is pushed at the end of the side whatever the
\* length of the side.
RECURSIVE apply_pushing_beyond_cap(_, _, _)
apply_pushing_beyond_cap(st, side, level_update) ==
    IF update_out_of_order(st, side, level_update)
    THEN [st |-> st, side |-> side, ret |-> FALSE, panic |-> TRUE]
    ELSE
    LET st1 == [st EXCEPT !.prev_update_price = Some(level_update.price)]
        bump == [st1 EXCEPT !.current_index = @ + 1]
    IN
    IF st1.current_index = Len(side.data)
    THEN [st |-> bump,
          side |-> [side EXCEPT !.data = Append(@, from_level(level_update))],
          ret |-> TRUE, panic |-> FALSE]
    ELSE
    LET price == side.data[st1.current_index + 1].price IN
    IF is_before(side, level_update.price, price)
    THEN [st |-> bump,
          side |-> [side EXCEPT !.data =
                       VecInsert(@, st1.current_index, from_level(level_update))],
          ret |-> TRUE, panic |-> FALSE]
    ELSE IF level_update.price = price
    THEN IF AggregateLevel_update_panics(side.data[st1.current_index + 1], level_update)
         THEN [st |-> st1, side |-> side, ret |-> FALSE, panic |-> TRUE]
         ELSE [st |-> bump,
               side |-> [side EXCEPT !.data[st1.current_index + 1] =
                            AggregateLevel_update(@, level_update)],
               ret |-> TRUE, panic |-> FALSE]
    ELSE LET d == drain(side, st1.current_index, level_update)
         IN apply_pushing_beyond_cap([st1 EXCEPT !.current_index = d.current_index], d.side, level_update)

\* AggregateBookSideUpdateStrategy::apply.  ret is the returned bool, panic is
\* TRUE when an assertion failed (ret is then meaningless).
RECURSIVE apply(_, _, _)
apply(st, side, level_update) ==
    IF update_out_of_order(st, side, level_update)
    THEN [st |-> st, side |-> side, ret |-> FALSE, panic |-> TRUE]
    ELSE
    LET st1 == [st EXCEPT !.prev_update_price = Some(level_update.price)]
        bump == [st1 EXCEPT !.current_index = @ + 1]
    IN
    IF st1.current_index = Len(side.data)
    THEN IF Len(side.data) >= side.max_levels
         THEN [st |-> st1, side |-> side, ret |-> FALSE, panic |-> FALSE]
         ELSE [st |-> bump,
               side |-> [side EXCEPT !.data = Append(@, from_level(level_update))],
               ret |-> TRUE, panic |-> FALSE]
    ELSE
    LET price == side.data[st1.current_index + 1].price IN
    IF is_before(side, level_update.price, price)
    THEN [st |-> bump,
          side |-> [side EXCEPT !.data =
                       VecInsert(@, st1.current_index, from_level(level_update))],
          ret |-> TRUE, panic |-> FALSE]
    ELSE IF level_update.price = price
    THEN IF AggregateLevel_update_panics(side.data[st1.current_index + 1], level_update)
         THEN [st |-> st1, side |-> side, ret |-> FALSE, panic |-> TRUE]
         ELSE [st |-> bump,
               side |-> [side EXCEPT !.data[st1.current_index + 1] =
                            AggregateLevel_update(@, level_update)],
               ret |-> TRUE, panic |-> FALSE]
    ELSE LET d == drain(side, st1.current_index, level_update)
         IN apply([st1 EXCEPT !.current_index = d.current_index], d.side, level_update)

\* The branch of apply that a call takes: the failed ordering assertion
\* ("panic"), the cursor at the end of a full side ("stop") or of a side with
\* room ("append"), the update before the level under the cursor ("insert"),
\* at its price ("merge") or after it ("drain", followed by the retry); a
\* cursor beyond the end makes side[current_index] fail ("out_of_range").
apply_branch(st, side, level_update) ==
    IF update_out_of_order(st, side, level_update) THEN "panic"
    ELSE IF st.current_index = Len(side.data)
    THEN IF Len(side.data) >= side.max_levels THEN "stop" ELSE "append"
    ELSE IF st.current_index > Len(side.data) THEN "out_of_range"
    ELSE IF is_before(side, level_update.price, side.data[st.current_index + 1].price)
    THEN "insert"
    ELSE IF level_update.price = side.data[st.current_index + 1].price
    THEN "merge"
    ELSE "drain"

\* The pairs <<current_index, side.len()>> that a pass of update_side goes
\* through from cursor st on: before and after every call of apply, and at the
\* retry that follows a drain.  The walk ends at a cursor beyond the end.
RECURSIVE pass_cursors(_, _, _)
pass_cursors(st, side, side_update) ==
    {<<st.current_index, Len(side.data)>>} \cup
    IF side_update = <<>> \/ st.current_index > Len(side.data) THEN {}
    ELSE (IF apply_branch(st, side, Head(side_update)) = "drain"
          THEN {<<drain(side, st.current_index, Head(side_update)).current_index,
                  Len(side.data)>>}
          ELSE {})
         \cup
         (IF apply(st, side, Head(side_update)).panic \/ ~apply(st, side, Head(side_update)).ret
          THEN {<<apply(st, side, Head(side_update)).st.current_index,
                  Len(apply(st, side, Head(side_update)).side.data)>>}
          ELSE pass_cursors(apply(st, side, Head(side_update)).st,
                            apply(st, side, Head(side_update)).side,
                            Tail(side_update)))

\* The for loop of update_side over the remaining levels of the snapshot;
\* stopped records that apply returned false and the loop broke out.
RECURSIVE update_loop(_, _, _)
update_loop(st, side, side_update) ==
    IF side_update = <<>>
    THEN [side |-> side, panic |-> FALSE, stopped |-> FALSE]
    ELSE LET r == apply(st, side, Head(side_update))
         IN IF r.panic THEN [side |-> r.side, panic |-> TRUE, stopped |-> FALSE]
            ELSE IF ~r.ret THEN [side |-> r.side, panic |-> FALSE, stopped |-> TRUE]
            ELSE update_loop(r.st, r.side, Tail(side_update))

\* AggregateBookSide::update_side: the pass, then the compaction (Vec::retain).
update_side(side, side_update) ==
    LET r == update_loop(Strategy_new, side, side_update)
    IN IF r.panic THEN r
       ELSE [r EXCEPT !.side.data = VecRetainNonEmpty(@)]

\* AggregateBookSide::new with an empty vector of levels
AggregateBookSide_new(ordering, max_levels) ==
    [ordering |-> ordering, max_levels |-> max_levels, data |-> <<>>]

\* ---------------------------------------------------------------- AggregateBook
\* AggregateBook::new
AggregateBook_new(max_levels) ==
    [bids |-> AggregateBookSide_new("GreaterFirst", max_levels),
     asks |-> AggregateBookSide_new("LessFirst", max_levels)]

\* AggregateBook::update: bids first, then asks; a panic in the bids pass
\* unwinds before the asks are touched.  stopped records that the pass over
\* one of the sides broke out at the depth cap.
AggregateBook_update(b, book_update) ==
    LET rb == update_side(b.bids, book_update.bids) IN
    IF rb.panic THEN [book |-> b, panic |-> TRUE, stopped |-> FALSE]
    ELSE LET ra == update_side(b.asks, book_update.asks) IN
         IF ra.panic THEN [book |-> b, panic |-> TRUE, stopped |-> rb.stopped]
         ELSE [book |-> [bids |-> rb.side, asks |-> ra.side], panic |-> FALSE,
               stopped |-> rb.stopped \/ ra.stopped]

\* ---------------------------------------------------------------- best levels
Min(a, b) == IF a <= b THEN a ELSE b

\* The orders in which HashMap::values() may visit the entries of a level.
ValueOrders(al) ==
    LET D == DOMAIN al.exchange_levels
        n == Cardinality(D)
    IN {[i \in 1..n |-> al.exchange_levels[o[i]]] :
            o \in {q \in [1..n -> D] : \A i, j \in 1..n : q[i] = q[j] => i = j}}

\* Vec::sort_by(|a, b| b.amount.cmp(&a.amount)): a stable sort, amount descending.
RECURSIVE sort_by_amount_desc(_)
sort_by_amount_desc(levels) ==
    IF levels = <<>> THEN <<>>
    ELSE LET x == levels[Len(levels)]
             sorted == sort_by_amount_desc(SubSeq(levels, 1, Len(levels) - 1))
             k == Cardinality({i \in 1..Len(sorted) : sorted[i].amount >= x.amount})
         IN SubSeq(sorted, 1, k) \o <<x>> \o SubSeq(sorted, k + 1, Len(sorted))

\* AggregateLevel::levels_by_amount: one result for each visiting order of the map.
levels_by_amount(al) == {sort_by_amount_desc(vs) : vs \in ValueOrders(al)}

\* The for loop of best_levels from the level of 0-based index i on, with
\* levels_to_add entries still wanted.
RECURSIVE best_levels_loop(_, _, _)
best_levels_loop(side, i, levels_to_add) ==
    IF i = Len(side.data) THEN {<<>>}
    ELSE UNION {
        LET price_levels_to_add == Min(Len(price_levels), levels_to_add)
            left == levels_to_add - price_levels_to_add
        IN {SubSeq(price_levels, 1, price_levels_to_add) \o rest :
               rest \in IF left = 0 THEN {<<>>}
                        ELSE best_levels_loop(side, i + 1, left)}
        : price_levels \in levels_by_amount(side.data[i + 1])}

\* Mutation of best_levels: levels_to_add starts large enough never to run out.
best_levels_of_every_level(side) ==
    best_levels_loop(side, 0, side.max_levels + Len(side.data) * Cardinality(Exchanges))

\* AggregateBookSide::best_levels: the results the call may return.
best_levels(side) == best_levels_loop(side, 0, side.max_levels)

\* AggregateBook::best_bids, AggregateBook::best_asks
best_bids(b) == best_levels(b.bids)
best_asks(b) == best_levels(b.asks)

\* ---------------------------------------------------------------- service.rs
\* Significant bits of a 64-bit float.
F64_MANTISSA_DIGITS == 53

\* The number of significant bits of the natural n (the integers of the model
\* have fewer than 31 bits).
BitLength(n) == CHOOSE b \in 0..30 : n < 2^b /\ (b = 0 \/ n >= 2^(b - 1))

\* Decimal::to_f64 on an integral decimal: the nearest float, ties to even.
\* A value of at most F64_MANTISSA_DIGITS bits converts exactly.
to_f64(d) ==
    LET n == IF d < 0 THEN 0 - d ELSE d
        excess == BitLength(n) - F64_MANTISSA_DIGITS
        unit == IF excess > 0 THEN 2^excess ELSE 1
        q == n \div unit
        r == n % unit
        up == 2 * r > unit \/ (2 * r = unit /\ q % 2 = 1)
        m == (IF up THEN q + 1 ELSE q) * unit
    IN IF d < 0 THEN 0 - m ELSE m

\* An f64 that may be NaN: f64::NAN, or the number x.
NAN == <<>>
Finite(x) == <<x>>

\* impl From<&ExchangeLevel> for Level
Level(value) ==
    [exchange |-> value.exchange_code,
     price |-> to_f64(value.price),
     amount |-> to_f64(value.amount)]

\* Mutation of make_summary: the spread is taken bid minus ask.
make_summary_spread_reversed(aggregate_book) ==
    {[spread |-> IF bb = <<>> \/ ba = <<>> THEN NAN
                 ELSE Finite(to_f64(bb[1].price - ba[1].price)),
      bids |-> [i \in 1..Len(bb) |-> Level(bb[i])],
      asks |-> [i \in 1..Len(ba) |-> Level(ba[i])]] :
        bb \in best_bids(aggregate_book), ba \in best_asks(aggregate_book)}

\* BookSummaryService::make_summary: the summaries the call may return (one
\* for each result of best_bids and best_asks).
make_summary(aggregate_book) ==
    {[spread |-> IF bb = <<>> \/ ba = <<>> THEN NAN
                 ELSE Finite(to_f64(ba[1].price - bb[1].price)),
      bids |-> [i \in 1..Len(bb) |-> Level(bb[i])],
      asks |-> [i \in 1..Len(ba) |-> Level(ba[i])]] :
        bb \in best_bids(aggregate_book), ba \in best_asks(aggregate_book)}

\* ---------------------------------------------------------------- inputs
\* Sequences over S of length at most n.
RECURSIVE SeqsUpTo(_, _)
SeqsUpTo(S, n) ==
    IF n = 0 THEN {<<>>}
    ELSE LET shorter == SeqsUpTo(S, n - 1)
         IN shorter \cup {Append(s, x) : s \in {t \in shorter : Len(t) = n - 1}, x \in S}

\* One side of a snapshot as an exchange decoder builds it: every level carries
\* the decoder's exchange code; prices and amounts are what the exchange sent.
SideUpdates ==
    [e \in Exchanges |->
        SeqsUpTo({ExchangeLevel(e, p, a) : p \in Prices, a \in Amounts}, MaxSnapLen)]

\* BookUpdate { exchange_code, bids, asks }
BookUpdate(e, bs, as) == [exchange_code |-> e, bids |-> bs, asks |-> as]

\* The snapshots the exchanges send in one run.  The two sides of a book evolve
\* independently, so a run either feeds long snapshots to one side only or
\* short ones (at most one level a side, of amount 1) to both.
Feeds == {"bids", "asks", "both"}

ShortSideUpdates ==
    [e \in Exchanges |->
        {s \in SideUpdates[e] : Len(s) <= 1 /\ \A i \in 1..Len(s) : s[i].amount = 1}]

\* The snapshots of feed f that come from exchange e.
UpdatesFrom ==
    [f \in Feeds |-> [e \in Exchanges |->
        {BookUpdate(e, bs, as) :
            bs \in CASE f = "asks" -> {<<>>}
                     [] f = "bids" -> SideUpdates[e]
                     [] OTHER -> ShortSideUpdates[e],
            as \in CASE f = "bids" -> {<<>>}
                     [] f = "asks" -> SideUpdates[e]
                     [] OTHER -> ShortSideUpdates[e]}]]

BookUpdates == [f \in Feeds |-> UNION {UpdatesFrom[f][e] : e \in Exchanges}]

\* ---------------------------------------------------------------- state
\* book: the subscriber's AggregateBook; panicked: an update of it panicked;
\* feed: the family of snapshots of this run.
\* pulled: the updates BookSummaryService::poll_next has taken from its update
\* stream, in order; summaries: the Summaries it has returned, in order.
VARIABLES book, panicked, feed, pulled, summaries

service_vars == <<pulled, summaries>>

\* The tasks and channels of one subscriber (one call of book_summary).
\* session[s]: the task of ExchangeAdapter::process_stream for adapter s, with
\* the frame it handled last on its current connection;
\* data_channel[s], command_channel[s]: the contents of its two channels;
\* select_next[j]: the side the Select built for adapter j polls first;
\* fanout: the task spawned by book_summary; applied[s]: the number of the
\* last update of session s applied to the book; outbound: the Summaries in
\* the subscriber's channel; subscriber: whether the receiving end is held.
VARIABLES session, data_channel, command_channel, select_next, fanout, applied,
          outbound, subscriber

pipeline_vars ==
    <<session, data_channel, command_channel, select_next, fanout, applied,
      outbound, subscriber>>

\* text: the text frame last handed to a decoder; receiver: the exchange whose
\* session received it; decoded: what the decoder of that exchange made of it.
VARIABLES text, receiver, decoded

decoder_vars == <<text, receiver, decoded>>

\* subscribers[i]: what the i-th call of book_summary owns: the tasks of its
\* exchange sessions, its aggregate book, the Summaries sent to its client and
\* the state of its fan-out task.
VARIABLES subscribers

\* given: the ranking and the levels handed to AggregateBookSide::new;
\* constructed: what the constructor made of them.
VARIABLES given, constructed

constructor_vars == <<given, constructed>>

vars ==
    <<book, panicked, feed, service_vars, pipeline_vars, decoder_vars, subscribers,
      constructor_vars>>

\* No subscriber has called book_summary.
PipelineIdle ==
    /\ session = <<>> /\ data_channel = <<>> /\ command_channel = <<>>
    /\ select_next = <<>>
    /\ applied = <<>>
    /\ fanout = [pc |-> "done", leaf |-> 0]
    /\ outbound = 0
    /\ subscriber = "none"

\* Nothing polls the service.
ServiceIdle == pulled = <<>> /\ summaries = <<>>

\* The decoder has read no frame.
DecoderIdle ==
    /\ text = [shape |-> "none", event |-> "", bids |-> <<>>, asks |-> <<>>]
    /\ decoded = [kind |-> "idle", data |-> <<>>]
    /\ receiver = "bitstamp"

\* No client has called book_summary.
ServerIdle == subscribers = <<>>

\* No side is being constructed from levels.
ConstructorIdle ==
    /\ given = [ordering |-> "GreaterFirst", data |-> <<>>]
    /\ constructed = [kind |-> "idle", side |-> <<>>]

Init ==
    /\ \E max_levels \in 0..MaxDepth : book = AggregateBook_new(max_levels)
    /\ panicked = FALSE
    /\ feed \in Feeds
    /\ ServiceIdle
    /\ PipelineIdle
    /\ DecoderIdle
    /\ ServerIdle
    /\ ConstructorIdle

\* One call of AggregateBook::update on the subscriber's book.
Update(book_update) ==
    /\ ~panicked
    /\ LET r == AggregateBook_update(book, book_update)
       IN /\ book' = r.book
          /\ panicked' = r.panic
    /\ UNCHANGED <<feed, service_vars, pipeline_vars, decoder_vars, subscribers, constructor_vars>>

Next == \E book_update \in BookUpdates[feed] : Update(book_update)

Spec == Init /\ [][Next]_vars

\* ---------------------------------------------------------------- the service
\* The tail of update_and_make_summary: Self::make_summary(&self.aggregate_book)
\* on the book r.book that the update left, unless the update panicked.
summary_after(r) ==
    [book |-> r.book, panic |-> r.panic, summary |-> make_summary(r.book)]

\* Mutation of update_and_make_summary: the Summary is made before the update
\* is applied.
update_and_make_summary_then_update(aggregate_book, maybe_book_update) ==
    LET r == IF maybe_book_update = None
             THEN [book |-> aggregate_book, panic |-> FALSE, stopped |-> FALSE]
             ELSE AggregateBook_update(aggregate_book, maybe_book_update[1])
    IN [book |-> r.book, panic |-> r.panic, summary |-> make_summary(aggregate_book)]

\* BookSummaryService::update_and_make_summary: the book after the call, whether
\* the call panicked, and the Summaries it may return if it did not.
update_and_make_summary(aggregate_book, maybe_book_update) ==
    summary_after(
        IF maybe_book_update = None
        THEN [book |-> aggregate_book, panic |-> FALSE, stopped |-> FALSE]
        ELSE AggregateBook_update(aggregate_book, maybe_book_update[1]))

\* <BookSummaryService as Stream>::poll_next when the update stream yields
\* book_update: Poll::Ready(Some(summary)), or the panic of the update.
poll_next(book_update) ==
    /\ ~panicked
    /\ Len(pulled) < MaxPulls
    /\ pulled' = Append(pulled, book_update)
    /\ \E r \in {update_and_make_summary(book, Some(book_update))} :
          /\ book' = r.book
          /\ panicked' = r.panic
          /\ IF r.panic THEN summaries' = summaries
             ELSE \E summary \in r.summary : summaries' = Append(summaries, summary)
    /\ UNCHANGED <<feed, pipeline_vars, decoder_vars, subscribers, constructor_vars>>

ServiceNext == \E book_update \in BookUpdates[feed] : poll_next(book_update)

\* The service of one subscriber fed by an arbitrary stream of updates.
ServiceSpec == Init /\ [][ServiceNext]_vars

\* ---------------------------------------------------------------- exchange.rs
\* mpsc::channel::<AdapterCommand>(1)
COMMAND_CHANNEL_CAPACITY == 1

\* The adapters of the subscriber's stream, in the order of exchange_adapters.
Adapters == 1..Len(session)

\* The update number n of adapter s: the BookUpdate the decoder of s builds
\* from the n-th data frame of the session, counted modulo session[s].cycle
\* (with a cycle of 1 the updates of a session are not told apart).
Data(s, n) == [exchange |-> s, seq |-> n]

\* The ExchangeAdapterStream of adapter s is dropped: the fan-out task
\* panicked or ended, or disconnect has consumed the leaf.
LeafDropped(s) ==
    \/ fanout.pc \in {"done", "panicked"}
    \/ fanout.pc = "disconnect" /\ fanout.leaf > s

\* The task of adapter s has ended: its data_sender and command_receiver are
\* dropped.
TaskEnded(s) == session[s].pc \in {"terminated", "panicked"}

\* Mutation of try_recv: on AdapterCommand::Close the task leaves the
\* connection for the reconnection sleep.
try_recv_close_reconnects(s, sess) ==
    IF command_channel[s] # <<>>
    THEN /\ session' = [session EXCEPT ![s] = [sess EXCEPT !.pc = "sleeping"]]
         /\ command_channel' = [command_channel EXCEPT ![s] = <<>>]
    ELSE /\ session' = [session EXCEPT ![s] = [sess EXCEPT !.pc = "live"]]
         /\ UNCHANGED command_channel

\* The head of the inner loop of process_stream: command_receiver.try_recv().
\* AdapterCommand::Close closes the socket (whatever close() returns) and
\* breaks out of 'connection; otherwise the task awaits the next frame.
try_recv(s, sess) ==
    IF command_channel[s] # <<>>
    THEN /\ session' = [session EXCEPT ![s] = [sess EXCEPT !.pc = "terminated"]]
         /\ command_channel' = [command_channel EXCEPT ![s] = <<>>]
    ELSE /\ session' = [session EXCEPT ![s] = [sess EXCEPT !.pc = "live"]]
         /\ UNCHANGED command_channel

\* The outcomes of ExchangeAdapter::connect.
ConnectOutcomes == {"ok", "connection_error", "subscription_error"}

\* ExchangeAdapter::connect as awaited at the head of 'connection: either
\* unwrap_or_else panics the task, or the socket is returned and the inner loop
\* starts.
connect(s, outcome) ==
    /\ s \in Adapters
    /\ session[s].pc = "connecting"
    /\ IF outcome = "ok"
       THEN try_recv(s, [session[s] EXCEPT !.frame = "none"])
       ELSE /\ session' = [session EXCEPT ![s].pc = "panicked"]
            /\ command_channel' = [command_channel EXCEPT ![s] = <<>>]
    /\ UNCHANGED <<data_channel, select_next, fanout, applied, outbound, subscriber>>

\* What pinned_ws.next().await yields: a text frame the decoder reads as Data,
\* as ReconnectionRequest or as None; a Ping whose Pong is sent or fails to be
\* sent; Err(AlreadyClosed) or Err(Io); any other Some(_); the end of the
\* frame stream.
Frames == {"data", "reconnection_request", "not_decoded", "ping", "ping_pong_fails",
           "closed_or_io_error", "other", "end_of_stream"}

\* Mutation of process_frame: an update decoded while the data channel is
\* full is discarded and the task reads on.
process_frame_drops_when_full(s, frame) ==
    /\ s \in Adapters
    /\ session[s].pc = "live"
    /\ CASE frame = "data" ->
              LET update == Data(s, session[s].seq)
                  sess == [session[s] EXCEPT !.seq = (@ + 1) % session[s].cycle,
                                             !.frame = frame]
              IN IF LeafDropped(s)
                 THEN \* send returns Err: "Error queueing data"
                      /\ try_recv(s, sess)
                      /\ UNCHANGED data_channel
                 ELSE IF Len(data_channel[s]) < DataCapacity
                 THEN /\ data_channel' = [data_channel EXCEPT ![s] = Append(@, update)]
                      /\ try_recv(s, sess)
                 ELSE /\ try_recv(s, sess)
                      /\ UNCHANGED data_channel
         [] frame = "closed_or_io_error" ->
              \* break, then sleep(SLEEP_BEFORE_RECONNECT_MS)
              /\ session' = [session EXCEPT ![s].pc = "sleeping", ![s].frame = frame]
              /\ UNCHANGED <<data_channel, command_channel>>
         [] OTHER ->
              \* nothing but logging, and the Pong of a Ping
              /\ try_recv(s, [session[s] EXCEPT !.frame = frame])
              /\ UNCHANGED data_channel
    /\ UNCHANGED <<select_next, fanout, applied, outbound, subscriber>>

\* One turn of the inner loop of process_stream from the frame just received
\* to the next await.
process_frame(s, frame) ==
    /\ s \in Adapters
    /\ session[s].pc = "live"
    /\ CASE frame = "data" ->
              LET update == Data(s, session[s].seq)
                  sess == [session[s] EXCEPT !.seq = (@ + 1) % session[s].cycle,
                                             !.frame = frame]
              IN IF LeafDropped(s)
                 THEN \* send returns Err: "Error queueing data"
                      /\ try_recv(s, sess)
                      /\ UNCHANGED data_channel
                 ELSE IF Len(data_channel[s]) < DataCapacity
                 THEN /\ data_channel' = [data_channel EXCEPT ![s] = Append(@, update)]
                      /\ try_recv(s, sess)
                 ELSE \* the channel is full: send(data).await suspends
                      /\ session' = [session EXCEPT
                                        ![s] = [sess EXCEPT !.pc = "sending",
                                                            !.held = Some(update)]]
                      /\ UNCHANGED <<data_channel, command_channel>>
         [] frame = "closed_or_io_error" ->
              \* break, then sleep(SLEEP_BEFORE_RECONNECT_MS)
              /\ session' = [session EXCEPT ![s].pc = "sleeping", ![s].frame = frame]
              /\ UNCHANGED <<data_channel, command_channel>>
         [] OTHER ->
              \* nothing but logging, and the Pong of a Ping
              /\ try_recv(s, [session[s] EXCEPT !.frame = frame])
              /\ UNCHANGED data_channel
    /\ UNCHANGED <<select_next, fanout, applied, outbound, subscriber>>

\* Mutation of send_resumes: after the send the task awaits the next frame
\* without looking at its command channel.
send_resumes_reads_on(s) ==
    /\ s \in Adapters
    /\ session[s].pc = "sending"
    /\ session' = [session EXCEPT ![s].held = None, ![s].pc = "live"]
    /\ IF LeafDropped(s)
       THEN UNCHANGED data_channel
       ELSE /\ Len(data_channel[s]) < DataCapacity
            /\ data_channel' = [data_channel EXCEPT ![s] = Append(@, session[s].held[1])]
    /\ UNCHANGED <<command_channel, select_next, fanout, applied, outbound, subscriber>>

\* data_sender.send(data).await resumes: room was made, or the receiver was
\* dropped and send returns Err.
send_resumes(s) ==
    /\ s \in Adapters
    /\ session[s].pc = "sending"
    /\ LET sess == [session[s] EXCEPT !.held = None]
       IN IF LeafDropped(s)
          THEN try_recv(s, sess) /\ UNCHANGED data_channel
          ELSE /\ Len(data_channel[s]) < DataCapacity
               /\ data_channel' = [data_channel EXCEPT ![s] = Append(@, session[s].held[1])]
               /\ try_recv(s, sess)
    /\ UNCHANGED <<select_next, fanout, applied, outbound, subscriber>>

\* sleep(Duration::from_millis(SLEEP_BEFORE_RECONNECT_MS)).await returns and
\* 'connection starts over.
sleep_ends(s) ==
    /\ s \in Adapters
    /\ session[s].pc = "sleeping"
    /\ session' = [session EXCEPT ![s].pc = "connecting"]
    /\ UNCHANGED <<data_channel, command_channel, select_next, fanout, applied,
                   outbound, subscriber>>

\* ---------------------------------------------------------------- the multiplexed stream
\* Mutation of poll_recv: the newest update of the channel is received first.
poll_recv_newest_first(channel) ==
    [ready |-> channel # <<>>,
     item |-> IF channel # <<>> THEN channel[Len(channel)] ELSE None,
     rest |-> IF channel # <<>> THEN SubSeq(channel, 1, Len(channel) - 1) ELSE channel]

\* Receiver::poll_recv on a data channel as ExchangeAdapterStream::poll_next
\* uses it: the oldest update of the channel, if any, and what is left.
poll_recv(channel) ==
    [ready |-> channel # <<>>,
     item |-> IF channel # <<>> THEN Head(channel) ELSE None,
     rest |-> IF channel # <<>> THEN Tail(channel) ELSE channel]

\* Mutation of leaf_ready: no leaf yields once the task of any adapter of the
\* stream has ended.
leaf_ready_while_every_task_runs(s) ==
    poll_recv(data_channel[s]).ready /\ \A t \in Adapters : ~TaskEnded(t)

\* ExchangeAdapterStream::poll_next is Poll::Ready(Some(_)); it is
\* Poll::Pending otherwise, also when the channel is closed.
leaf_ready(s) == poll_recv(data_channel[s]).ready

\* Receiver::poll_recv on the data channel of adapter s: Ready(Some(_)) while
\* the channel holds an update, Ready(None) once it is empty and its sender is
\* dropped with the task, Pending otherwise.
Receiver_poll_recv(s) ==
    IF data_channel[s] # <<>> THEN "ReadySome"
    ELSE IF TaskEnded(s) THEN "ReadyNone"
    ELSE "Pending"

\* Mutation of ExchangeAdapterStream::poll_next: the end of the channel is
\* passed on as the end of the stream.
ExchangeAdapterStream_poll_next_passing_end(s) == Receiver_poll_recv(s)

\* ExchangeAdapterStream::poll_next: Ready(Some(data)) is passed on and
\* everything else is Pending.
ExchangeAdapterStream_poll_next(s) ==
    IF Receiver_poll_recv(s) = "ReadySome" THEN "ReadySome" ELSE "Pending"

\* The multiplexed stream is Ready(None): Select ends when both of its sides
\* have ended, so the stream ends when every leaf has.
ExchangeDataStream_finished ==
    \A s \in Adapters : ExchangeAdapterStream_poll_next(s) = "ReadyNone"

\* PollNext::other
PollNext_other(side) == IF side = "Left" THEN "Right" ELSE "Left"

\* Mutation of Select::poll_next: the left side is always polled first.
RECURSIVE ExchangeDataStream_poll_next_left_first(_, _)
ExchangeDataStream_poll_next_left_first(j, sn) ==
    IF j = 1
    THEN [leaf |-> IF leaf_ready(1) THEN 1 ELSE 0, select_next |-> sn]
    ELSE LET left == ExchangeDataStream_poll_next_left_first(j - 1, sn)
         IN IF left.leaf # 0 THEN left
            ELSE [leaf |-> IF leaf_ready(j) THEN j ELSE 0, select_next |-> sn]

\* Select::poll_next (futures::stream::select, round robin) on the stream
\* ExchangeDataStream::new builds for adapters 1..j: the leaf of adapter 1 when
\* j = 1, otherwise select(stream for 1..j-1, leaf j).  The side polled first is
\* select_next[j], which toggles at every poll; the other side is polled when
\* the first is pending.  Yields the adapter whose update is ready (0 when
\* the poll is pending) and the new select_next.
RECURSIVE ExchangeDataStream_poll_next(_, _)
ExchangeDataStream_poll_next(j, sn) ==
    IF j = 1
    THEN [leaf |-> IF leaf_ready(1) THEN 1 ELSE 0, select_next |-> sn]
    ELSE LET sn1 == [sn EXCEPT ![j] = PollNext_other(@)]
         IN IF sn[j] = "Left"
            THEN LET left == ExchangeDataStream_poll_next(j - 1, sn1)
                 IN IF left.leaf # 0 THEN left
                    ELSE [leaf |-> IF leaf_ready(j) THEN j ELSE 0,
                          select_next |-> left.select_next]
            ELSE IF leaf_ready(j) THEN [leaf |-> j, select_next |-> sn1]
                 ELSE ExchangeDataStream_poll_next(j - 1, sn1)

\* ---------------------------------------------------------------- server.rs
\* tx.send(Ok(item)).await in the task of book_summary: Err breaks out of the
\* loop towards service.disconnect(); a full channel suspends the task.
tx_send ==
    IF subscriber = "dropped"
    THEN fanout' = [pc |-> "disconnect", leaf |-> 1] /\ UNCHANGED outbound
    ELSE IF outbound < SummaryCapacity
    THEN fanout' = [pc |-> "next", leaf |-> 0] /\ outbound' = outbound + 1
    ELSE fanout' = [pc |-> "send", leaf |-> 0] /\ UNCHANGED outbound

\* service.next().await: one poll of the multiplexed stream by the task, at
\* the call or when a send on a data channel, or its closing, wakes the parked
\* task.  A ready update is applied to the book and its Summary sent; the end
\* of the stream ends the loop of the task.
service_next ==
    /\ \/ fanout.pc = "next"
       \/ fanout.pc = "parked" /\ \E s \in Adapters : leaf_ready(s)
       \/ fanout.pc = "parked" /\ ExchangeDataStream_finished
    /\ LET polled == ExchangeDataStream_poll_next(Len(session), select_next)
       IN /\ select_next' = polled.select_next
          /\ IF ExchangeDataStream_finished
             THEN \* while let Some(item) fails: the loop is left
                  /\ fanout' = [pc |-> "disconnect", leaf |-> 1]
                  /\ UNCHANGED <<data_channel, applied, outbound>>
             ELSE IF polled.leaf = 0
             THEN /\ fanout' = [pc |-> "parked", leaf |-> 0]
                  /\ UNCHANGED <<data_channel, applied, outbound>>
             ELSE LET received == poll_recv(data_channel[polled.leaf])
                  IN /\ data_channel' = [data_channel EXCEPT ![polled.leaf] = received.rest]
                     /\ applied' = [applied EXCEPT ![polled.leaf] = received.item.seq]
                     /\ tx_send
    /\ UNCHANGED <<session, command_channel, subscriber>>

\* tx.send(Ok(item)).await resumes: room was made or the receiver was dropped.
tx_send_resumes ==
    /\ fanout.pc = "send"
    /\ subscriber = "dropped" \/ outbound < SummaryCapacity
    /\ tx_send
    /\ UNCHANGED <<session, data_channel, command_channel, select_next, applied, subscriber>>

\* ExchangeDataStream::disconnect at its next leaf, in traversal order:
\* ExchangeAdapterStream::disconnect sends AdapterCommand::Close (Err when the
\* task of the adapter has ended), then the leaf is dropped.
disconnect ==
    /\ fanout.pc = "disconnect"
    /\ LET s == fanout.leaf
       IN /\ IF TaskEnded(s) THEN UNCHANGED command_channel
             ELSE /\ Len(command_channel[s]) < COMMAND_CHANNEL_CAPACITY
                  /\ command_channel' = [command_channel EXCEPT ![s] = Append(@, "Close")]
          /\ data_channel' = [data_channel EXCEPT ![s] = <<>>]
          /\ fanout' = IF s = Len(session) THEN [pc |-> "done", leaf |-> 0]
                       ELSE [pc |-> "disconnect", leaf |-> s + 1]
    /\ UNCHANGED <<session, select_next, applied, outbound, subscriber>>

\* The client takes a Summary from its response stream.
subscriber_receives ==
    /\ subscriber = "listening"
    /\ outbound > 0
    /\ outbound' = outbound - 1
    /\ UNCHANGED <<session, data_channel, command_channel, select_next, fanout,
                   applied, subscriber>>

\* The client disconnects: the ReceiverStream is dropped.
subscriber_drops ==
    /\ subscriber = "listening"
    /\ subscriber' = "dropped"
    /\ outbound' = 0
    /\ UNCHANGED <<session, data_channel, command_channel, select_next, fanout, applied>>

\* book_summary has run for one subscriber over sessions adapters:
\* ExchangeDataStream::new has spawned the task of each adapter and folded
\* the leaves into selects, and the fan-out task is about to poll.
book_summary(sessions, cycle) ==
    /\ session = [s \in 1..sessions |->
                     [pc |-> "connecting", seq |-> 0, held |-> None, cycle |-> cycle,
                      frame |-> "none"]]
    /\ data_channel = [s \in 1..sessions |-> <<>>]
    /\ command_channel = [s \in 1..sessions |-> <<>>]
    /\ select_next = [s \in 1..sessions |-> "Left"]
    /\ applied = [s \in 1..sessions |-> cycle - 1]
    /\ fanout = [pc |-> "next", leaf |-> 0]
    /\ outbound = 0
    /\ subscriber = "listening"

\* The state the pipeline specifications leave alone: the contents of the
\* updates and of the book are the subject of Spec and ServiceSpec.
BookAside ==
    /\ book = AggregateBook_new(MaxDepth)
    /\ panicked = FALSE
    /\ feed = "both"
    /\ ServiceIdle
    /\ DecoderIdle
    /\ ServerIdle
    /\ ConstructorIdle

BookUnchanged ==
    UNCHANGED <<book, panicked, feed, service_vars, decoder_vars, subscribers, constructor_vars>>

PipelineInit ==
    /\ BookAside
    /\ \E sessions \in 1..MaxPipelineSessions : book_summary(sessions, 1)

SessionNext(s) ==
    \/ \E outcome \in ConnectOutcomes : connect(s, outcome)
    \/ \E frame \in Frames : process_frame(s, frame)
    \/ send_resumes(s)
    \/ sleep_ends(s)

FanoutNext == service_next \/ tx_send_resumes \/ disconnect

PipelineNext ==
    /\ \/ \E s \in 1..MaxSessions : SessionNext(s)
       \/ FanoutNext
       \/ subscriber_receives
       \/ subscriber_drops
    /\ BookUnchanged

\* One subscriber with its sessions, multiplexed stream and fan-out task.
PipelineSpec == PipelineInit /\ [][PipelineNext]_vars

\* PipelineSpec where every task that can take a step eventually takes one (the
\* executor polls every woken task; a connection attempt, a sleep and a read
\* of the socket each come to an end), where a session that keeps reading
\* keeps receiving snapshots, and where the client takes the Summaries sent to
\* it for as long as it is connected.
FairPipelineSpec ==
    /\ PipelineInit /\ [][PipelineNext]_vars
    /\ \A s \in 1..MaxSessions : WF_vars(SessionNext(s) /\ BookUnchanged)
    /\ \A s \in 1..MaxSessions : SF_vars(process_frame(s, "data") /\ BookUnchanged)
    /\ WF_vars(FanoutNext /\ BookUnchanged)
    /\ WF_vars(subscriber_receives /\ BookUnchanged)

\* service.next().await where the update that the multiplexed stream yields
\* fails an assertion of AggregateBook::update: the panic unwinds the fan-out
\* task, which drops the service with its receivers and command senders, and
\* tx, and never reaches service.disconnect().
service_next_panics ==
    /\ \/ fanout.pc = "next"
       \/ fanout.pc = "parked" /\ \E s \in Adapters : leaf_ready(s)
    /\ \E polled \in {ExchangeDataStream_poll_next(Len(session), select_next)} :
          /\ polled.leaf # 0
          /\ select_next' = polled.select_next
    /\ data_channel' = [s \in Adapters |-> <<>>]
    /\ fanout' = [pc |-> "panicked", leaf |-> 0]
    /\ UNCHANGED <<session, command_channel, applied, outbound, subscriber>>

FatalPipelineNext ==
    /\ \/ \E s \in 1..MaxSessions : SessionNext(s)
       \/ FanoutNext
       \/ service_next_panics
       \/ subscriber_receives
       \/ subscriber_drops
    /\ BookUnchanged

\* FairPipelineSpec where an update may also fail an assertion of the book.
FatalPipelineSpec ==
    /\ PipelineInit /\ [][FatalPipelineNext]_vars
    /\ \A s \in 1..MaxSessions : WF_vars(SessionNext(s) /\ BookUnchanged)
    /\ \A s \in 1..MaxSessions : SF_vars(process_frame(s, "data") /\ BookUnchanged)
    /\ WF_vars(FanoutNext /\ BookUnchanged)
    /\ WF_vars(subscriber_receives /\ BookUnchanged)

\* The same subscriber while every connection succeeds, every frame is a
\* snapshot and the client stays connected, the updates of each session
\* numbered modulo SeqCycle.
MuxInit ==
    /\ BookAside
    /\ \E sessions \in 1..MaxSessions : book_summary(sessions, SeqCycle)

MuxSessionNext(s) ==
    \/ connect(s, "ok")
    \/ process_frame(s, "data")
    \/ send_resumes(s)

MuxNext ==
    /\ \/ \E s \in 1..MaxSessions : MuxSessionNext(s)
       \/ service_next
       \/ tx_send_resumes
       \/ subscriber_receives
    /\ BookUnchanged

MuxSpec == MuxInit /\ [][MuxNext]_vars

\* MuxSpec with a consumer that keeps pulling: the fan-out task is polled
\* again whenever it can proceed, and the client keeps taking Summaries.
FairMuxInit ==
    /\ BookAside
    /\ \E sessions \in 1..MaxSessions : book_summary(sessions, FairSeqCycle)

FairMuxSpec ==
    /\ FairMuxInit /\ [][MuxNext]_vars
    /\ WF_vars(service_next /\ BookUnchanged)
    /\ WF_vars(tx_send_resumes /\ BookUnchanged)
    /\ WF_vars(subscriber_receives /\ BookUnchanged)

\* FairMuxSpec while transports fail: a connection attempt may fail and a
\* connection may deliver any kind of frame or break, the client staying
\* connected and the consumer pulling.
FaultyMuxInit ==
    /\ BookAside
    /\ \E sessions \in 1..MaxPipelineSessions : book_summary(sessions, FairSeqCycle)

FaultyMuxNext ==
    /\ \/ \E s \in 1..MaxPipelineSessions : SessionNext(s)
       \/ service_next
       \/ tx_send_resumes
       \/ subscriber_receives
    /\ BookUnchanged

FaultyMuxSpec ==
    /\ FaultyMuxInit /\ [][FaultyMuxNext]_vars
    /\ WF_vars(service_next /\ BookUnchanged)
    /\ WF_vars(tx_send_resumes /\ BookUnchanged)
    /\ WF_vars(subscriber_receives /\ BookUnchanged)

\* ---------------------------------------------------------------- bitstamp.rs
\* pub const NUM_LEVELS: usize = 10 (core.rs), the depth of the books and of
\* the decoded snapshots; MaxDepth in the model.
NUM_LEVELS == MaxDepth

\* The strings a price or amount field of a frame may carry: the numeral of
\* a decimal number, or a string that is not one.
DecimalString(d) == <<"decimal", d>>
NotDecimalString == <<"__INCORRECT__", 0>>
FieldStrings == {DecimalString(d) : d \in Prices} \cup {NotDecimalString}

\* Decimal::from_str: Ok(d) as Some(d), Err(_) as None.
Decimal_from_str(str) == IF str[1] = "decimal" THEN Some(str[2]) ELSE None

\* struct BitstampPair((String, String))
BitstampPairs == FieldStrings \X FieldStrings

\* A text frame as serde_json reads it: "book_update" deserializes as
\* BitstampBookUpdate (data.bids and data.asks are arrays of pairs of strings);
\* "event" does not but deserializes as BitstampEvent; "malformed" as neither.
TextFrame(shape, event, bids, asks) ==
    [shape |-> shape, event |-> event, bids |-> bids, asks |-> asks]

TextFrames ==
    {TextFrame("book_update", "data", bids, asks) :
        bids \in SeqsUpTo(BitstampPairs, MaxFrameBids),
        asks \in SeqsUpTo(BitstampPairs, MaxFrameAsks)}
    \cup {TextFrame("event", event, <<>>, <<>>) :
            event \in {"bts:request_reconnect", "bts:subscription_succeeded"}}
    \cup {TextFrame("malformed", "", <<>>, <<>>)}

\* Iterator::take(n) followed by collect
Take(v, n) == SubSeq(v, 1, Min(n, Len(v)))

\* impl From<BitstampPair> for ExchangeLevel: unwrap panics on a field that is
\* not a decimal number.
From_BitstampPair(value) ==
    IF Decimal_from_str(value[1]) = None \/ Decimal_from_str(value[2]) = None
    THEN [panic |-> TRUE, level |-> ExchangeLevel("bitstamp", 0, 0)]
    ELSE [panic |-> FALSE,
          level |-> ExchangeLevel("bitstamp", Decimal_from_str(value[1])[1],
                                  Decimal_from_str(value[2])[1])]

\* One side of From<BitstampBookUpdate>: take(NUM_LEVELS).map(into).collect()
From_BitstampSide(pairs) ==
    [i \in 1..Len(Take(pairs, NUM_LEVELS)) |-> From_BitstampPair(pairs[i])]

\* impl From<BitstampBookUpdate> for BookUpdate
From_BitstampBookUpdate(value) ==
    [panic |-> \/ \E i \in DOMAIN From_BitstampSide(value.bids) :
                      From_BitstampSide(value.bids)[i].panic
               \/ \E i \in DOMAIN From_BitstampSide(value.asks) :
                      From_BitstampSide(value.asks)[i].panic,
     update |-> BookUpdate("bitstamp",
                    [i \in DOMAIN From_BitstampSide(value.bids) |->
                        From_BitstampSide(value.bids)[i].level],
                    [i \in DOMAIN From_BitstampSide(value.asks) |->
                        From_BitstampSide(value.asks)[i].level])]

\* read_bitstamp_book_update: Some(Data(_)), Some(ReconnectionRequest) or
\* None, or the panic of the conversion.
read_bitstamp_book_update(value) ==
    IF value.shape = "book_update"
    THEN IF From_BitstampBookUpdate(value).panic
         THEN [kind |-> "panic", data |-> <<>>]
         ELSE [kind |-> "Data", data |-> <<From_BitstampBookUpdate(value).update>>]
    ELSE IF value.shape = "event" /\ value.event = "bts:request_reconnect"
    THEN [kind |-> "ReconnectionRequest", data |-> <<>>]
    ELSE [kind |-> "None", data |-> <<>>]

\* ---------------------------------------------------------------- binance.rs
\* impl From<BinancePair> for Level: unwrap panics on a field that is not a
\* decimal number.
From_BinancePair(value) ==
    IF Decimal_from_str(value[1]) = None \/ Decimal_from_str(value[2]) = None
    THEN [panic |-> TRUE, level |-> ExchangeLevel("binance", 0, 0)]
    ELSE [panic |-> FALSE,
          level |-> ExchangeLevel("binance", Decimal_from_str(value[1])[1],
                                  Decimal_from_str(value[2])[1])]

\* One side of From<BinanceBookUpdate>: into_iter().map(into).collect()
From_BinanceSide(pairs) ==
    [i \in 1..Len(pairs) |-> From_BinancePair(pairs[i])]

\* impl From<BinanceBookUpdate> for BookUpdate
From_BinanceBookUpdate(value) ==
    [panic |-> \/ \E i \in DOMAIN From_BinanceSide(value.bids) :
                      From_BinanceSide(value.bids)[i].panic
               \/ \E i \in DOMAIN From_BinanceSide(value.asks) :
                      From_BinanceSide(value.asks)[i].panic,
     update |-> BookUpdate("binance",
                    [i \in DOMAIN From_BinanceSide(value.bids) |->
                        From_BinanceSide(value.bids)[i].level],
                    [i \in DOMAIN From_BinanceSide(value.asks) |->
                        From_BinanceSide(value.asks)[i].level])]

\* ConnectedBinanceProvider::parse_book_update: Some(book update) or None, or
\* the panic of the conversion.  A frame deserializes as BinanceBookUpdate when
\* it has the arrays of pairs of strings bids and asks.
parse_book_update(msg_txt) ==
    IF msg_txt.shape = "book_update"
    THEN IF From_BinanceBookUpdate(msg_txt).panic
         THEN [kind |-> "panic", data |-> <<>>]
         ELSE [kind |-> "Data", data |-> <<From_BinanceBookUpdate(msg_txt).update>>]
    ELSE [kind |-> "None", data |-> <<>>]

\* ConnectedBinanceProvider::poll_next on a text frame
ConnectedBinanceProvider_poll_next ==
    /\ decoded.kind = "idle"
    /\ receiver = "binance"
    /\ decoded' = parse_book_update(text)
    /\ UNCHANGED <<text, receiver, book, panicked, feed, service_vars, pipeline_vars,
                   subscribers, constructor_vars>>

\* process_stream hands the text frame it received to protocol_reader.
protocol_reader ==
    /\ decoded.kind = "idle"
    /\ receiver = "bitstamp"
    /\ decoded' = read_bitstamp_book_update(text)
    /\ UNCHANGED <<text, receiver, book, panicked, feed, service_vars, pipeline_vars, subscribers,
                   constructor_vars>>

\* A text frame has arrived and is about to be decoded.
DecoderInit ==
    /\ book = AggregateBook_new(MaxDepth) /\ panicked = FALSE /\ feed = "both"
    /\ ServiceIdle /\ PipelineIdle /\ ServerIdle /\ ConstructorIdle
    /\ text \in TextFrames
    /\ receiver \in Exchanges
    /\ decoded = [kind |-> "idle", data |-> <<>>]

DecoderNext == protocol_reader \/ ConnectedBinanceProvider_poll_next

\* The decoder of an exchange applied to an arbitrary text frame.
DecoderSpec == DecoderInit /\ [][DecoderNext]_vars

\* ---------------------------------------------------------------- the server
\* What one call of book_summary creates: ExchangeDataStream::new spawns a
\* task with its own channels for each adapter of self.exchange_adapters,
\* BookSummaryService::new makes an AggregateBook, and the fan-out task is
\* spawned with the sender of a new Summary channel.
new_subscriber ==
    [sessions |-> [e \in Exchanges |-> "running"],
     book |-> AggregateBook_new(NUM_LEVELS),
     summaries |-> 0,
     fanout |-> "streaming"]

\* <ProtobufOrderbookServer as OrderbookAggregator>::book_summary
OrderbookAggregator_book_summary ==
    /\ Len(subscribers) < MaxSubscribers
    /\ subscribers' = Append(subscribers, new_subscriber)
    /\ UNCHANGED <<book, panicked, feed, service_vars, pipeline_vars, decoder_vars,
                   constructor_vars>>

\* Mutation of fanout_update: the servers' subscribers share one book.
fanout_update_shared_book(i, book_update) ==
    /\ i \in 1..Len(subscribers)
    /\ subscribers[i].fanout = "streaming"
    /\ subscribers[i].summaries < MaxSubscriberPulls
    /\ subscribers[i].sessions[book_update.exchange_code] = "running"
    /\ \E r \in {AggregateBook_update(subscribers[i].book, book_update)} :
          subscribers' =
              [j \in 1..Len(subscribers) |->
                  IF r.panic THEN [subscribers[j] EXCEPT !.fanout = "panicked"]
                  ELSE [subscribers[j] EXCEPT
                           !.book = r.book,
                           !.summaries = IF j = i THEN @ + 1 ELSE @]]
    /\ UNCHANGED <<book, panicked, feed, service_vars, pipeline_vars, decoder_vars,
                   constructor_vars>>

\* One turn of the loop of the fan-out task of subscriber i: service.next()
\* yields the Summary of its book after book_update, which a session of the
\* subscriber queued, and tx.send sends it; a panic of the update ends the
\* task and drops the service.
fanout_update(i, book_update) ==
    /\ i \in 1..Len(subscribers)
    /\ subscribers[i].fanout = "streaming"
    /\ subscribers[i].summaries < MaxSubscriberPulls
    /\ subscribers[i].sessions[book_update.exchange_code] = "running"
    /\ \E r \in {AggregateBook_update(subscribers[i].book, book_update)} :
          subscribers' =
              [subscribers EXCEPT
                  ![i] = IF r.panic THEN [@ EXCEPT !.fanout = "panicked"]
                         ELSE [@ EXCEPT !.book = r.book, !.summaries = @ + 1]]
    /\ UNCHANGED <<book, panicked, feed, service_vars, pipeline_vars, decoder_vars,
                   constructor_vars>>

\* The client of subscriber i disconnects: tx.send fails, the loop breaks and
\* service.disconnect() sends Close to the sessions of the subscriber.
fanout_disconnect(i) ==
    /\ i \in 1..Len(subscribers)
    /\ subscribers[i].fanout = "streaming"
    /\ subscribers' =
          [subscribers EXCEPT ![i] = [@ EXCEPT !.fanout = "done",
                                               !.sessions = [e \in Exchanges |-> "closed"]]]
    /\ UNCHANGED <<book, panicked, feed, service_vars, pipeline_vars, decoder_vars,
                   constructor_vars>>

ServerInit == BookAside /\ PipelineIdle

ServerNext ==
    \/ OrderbookAggregator_book_summary
    \/ \E i \in 1..MaxSubscribers : \E book_update \in BookUpdates["bids"] :
          fanout_update(i, book_update)
    \/ \E i \in 1..MaxSubscribers : fanout_disconnect(i)

\* The server with the clients that call book_summary.
ServerSpec == ServerInit /\ [][ServerNext]_vars

\* ---------------------------------------------------------------- the constructor of a side
\* The loop of AggregateBookSide::check_integrity from level i (1-based) on:
\* TRUE when its assertion fails.  prev_price is assigned in the else branch
\* only, when it is None.
RECURSIVE check_integrity_loop(_, _, _)
check_integrity_loop(side, prev_price, i) ==
    IF i > Len(side.data) THEN FALSE
    ELSE IF prev_price # None
    THEN IF ~is_before(side, prev_price[1], side.data[i].price)
         THEN TRUE
         ELSE check_integrity_loop(side, prev_price, i + 1)
    ELSE check_integrity_loop(side, Some(side.data[i].price), i + 1)

\* AggregateBookSide::check_integrity panics
check_integrity_panics(side) == check_integrity_loop(side, None, 1)

\* AggregateBookSide::new with a vector of levels
AggregateBookSide_new_from(ordering, max_levels, data) ==
    IF check_integrity_panics([ordering |-> ordering, max_levels |-> max_levels, data |-> data])
    THEN [kind |-> "panic", side |-> <<>>]
    ELSE [kind |-> "side",
          side |-> <<[ordering |-> ordering, max_levels |-> max_levels, data |-> data]>>]

\* The lists of levels a side is constructed from: levels of one exchange and
\* amount, of prices 1..MaxListPrice.
LevelLists ==
    SeqsUpTo({from_level(ExchangeLevel("binance", p, 1)) : p \in 1..MaxListPrice},
             MaxListLen)

\* A call of AggregateBookSide::new on the given levels.
construct_side ==
    /\ constructed.kind = "idle"
    /\ constructed' = AggregateBookSide_new_from(given.ordering, NUM_LEVELS, given.data)
    /\ UNCHANGED <<given, book, panicked, feed, service_vars, pipeline_vars, decoder_vars,
                   subscribers>>

ConstructorInit ==
    /\ book = AggregateBook_new(MaxDepth) /\ panicked = FALSE /\ feed = "both"
    /\ ServiceIdle /\ PipelineIdle /\ DecoderIdle /\ ServerIdle
    /\ given \in [ordering : {"GreaterFirst", "LessFirst"}, data : LevelLists]
    /\ constructed = [kind |-> "idle", side |-> <<>>]

ConstructorNext == construct_side

\* AggregateBookSide::new applied to an arbitrary list of levels.
ConstructorSpec == ConstructorInit /\ [][ConstructorNext]_vars

\* ---------------------------------------------------------------- helpers of the properties
Sides(b) == {b.bids, b.asks}

\* The (price, amount) entries a side attributes to exchange e.
EntriesOf(side, e) ==
    {<<side.data[i].price, side.data[i].exchange_levels[e].amount>> :
        i \in {j \in 1..Len(side.data) : e \in DOMAIN side.data[j].exchange_levels}}

\* The (price, amount) levels of one side of a snapshot.
LevelsOf(side_update) ==
    {<<side_update[i].price, side_update[i].amount>> : i \in 1..Len(side_update)}

PricesOf(side_update) == {side_update[i].price : i \in 1..Len(side_update)}

StrictlyOrdered(side) ==
    \A i \in 1..(Len(side.data) - 1) :
        is_before(side, side.data[i].price, side.data[i + 1].price)

\* The snapshot side that AggregateBook::update passes to a side of the book.
SideUpdateFor(side, book_update) ==
    IF side.ordering = "GreaterFirst" THEN book_update.bids ELSE book_update.asks

\* The side of book b with the ranking of side.
SideLike(b, side) == IF side.ordering = "GreaterFirst" THEN b.bids ELSE b.asks

\* ---------------------------------------------------------------- C1
\* C1: after any sequence of updates that returned without panicking, the
\* prices of each side are strictly monotone under the side's ranking (bids
\* strictly descending, asks strictly ascending): no two levels share a price.
C1_SidesStrictlyMonotone ==
    \A side \in Sides(book) : StrictlyOrdered(side)

\* ---------------------------------------------------------------- C2
\* C2: after any sequence of updates, the number of aggregate levels of each
\* side never exceeds max_levels.
C2_SideLengthBounded ==
    \A side \in Sides(book) : Len(side.data) <= side.max_levels

\* ---------------------------------------------------------------- C3
\* C3: for every update from exchange E and every price p that is not among
\* the snapshot's levels for a side, after the update that side has no level
\* at p or the level at p has no entry for E.
C3_AbsentPricesWithdrawn ==
    \A u \in BookUpdates[feed] :
        LET r == AggregateBook_update(book, u) IN
        ~panicked /\ ~r.panic =>
            \A side \in Sides(r.book) :
                \A i \in 1..Len(side.data) :
                    side.data[i].price \notin PricesOf(SideUpdateFor(side, u))
                        => u.exchange_code \notin DOMAIN side.data[i].exchange_levels

\* ---------------------------------------------------------------- C4
StrictSnapshotSide(ordering, side_update) ==
    \A i \in 1..(Len(side_update) - 1) :
        IF ordering = "LessFirst"
        THEN side_update[i].price < side_update[i + 1].price
        ELSE side_update[i].price > side_update[i + 1].price

StrictSnapshot(book_update) ==
    /\ StrictSnapshotSide("GreaterFirst", book_update.bids)
    /\ StrictSnapshotSide("LessFirst", book_update.asks)

\* C4: when two successive snapshots from the same exchange E are applied, the
\* second fully replaces the first: afterwards the (price, amount) entries of
\* E in a side are exactly the levels of the second snapshot for that side.
\* (Stated for strictly ordered snapshots whose passes do not stop at the depth
\* cap, so that neither a repeated price nor the cap accounts for a difference.)
C4_SecondSnapshotReplacesFirst ==
    \A u1 \in BookUpdates[feed] : \A u2 \in BookUpdates[feed] :
        LET r1 == AggregateBook_update(book, u1)
            r2 == AggregateBook_update(r1.book, u2)
        IN /\ ~panicked
           /\ u1.exchange_code = u2.exchange_code
           /\ StrictSnapshot(u1) /\ StrictSnapshot(u2)
           /\ ~r1.panic /\ ~r2.panic /\ ~r1.stopped /\ ~r2.stopped
           => \A side \in Sides(r2.book) :
                EntriesOf(side, u2.exchange_code) = LevelsOf(SideUpdateFor(side, u2))

\* ---------------------------------------------------------------- C5
\* C5: idempotence: for any reachable book and any snapshot it accepts,
\* applying the snapshot twice yields the same book as applying it once.
C5_Idempotent ==
    \A u \in BookUpdates[feed] :
        LET r1 == AggregateBook_update(book, u)
            r2 == AggregateBook_update(r1.book, u)
        IN ~panicked /\ ~r1.panic => ~r2.panic /\ r2.book = r1.book
\* ---------------------------------------------------------------- C6
\* The outcome of one more update ub after the outcome r1 of a first update of
\* book b: a panic of either update is a panic of the sequence.
ThenUpdate(b, r1, ub) ==
    IF r1.panic THEN [book |-> b, panic |-> TRUE, stopped |-> r1.stopped]
    ELSE LET r2 == AggregateBook_update(r1.book, ub) IN
         IF r2.panic THEN [book |-> b, panic |-> TRUE, stopped |-> r1.stopped \/ r2.stopped]
         ELSE [book |-> r2.book, panic |-> FALSE, stopped |-> r1.stopped \/ r2.stopped]

\* The snapshots of the feed from exchange e, each with the outcome of applying
\* it to the current book.
FirstUpdates(e) ==
    {[update |-> u, result |-> AggregateBook_update(book, u)] : u \in UpdatesFrom[feed][e]}

\* C6 as claimed: for any reachable book and any two snapshots from distinct
\* exchanges, applying them in either order yields the same book.
C6_Commutative ==
    ~panicked =>
        \A e1 \in Exchanges : \A e2 \in Exchanges \ {e1} :
            \A f1 \in FirstUpdates(e1) : \A f2 \in FirstUpdates(e2) :
                LET r12 == ThenUpdate(book, f1.result, f2.update)
                    r21 == ThenUpdate(book, f2.result, f1.update)
                IN r12.panic = r21.panic /\ r12.book = r21.book

\* C6 as amended: the two orders agree (both panic, or both return the same
\* book) whenever no pass of either order stops at the depth cap.
C6_CommutativeBelowCap ==
    ~panicked =>
        LET firsts == [e \in Exchanges |-> FirstUpdates(e)] IN
        \A f1 \in firsts["binance"] : \A f2 \in firsts["bitstamp"] :
            LET r12 == ThenUpdate(book, f1.result, f2.update)
                r21 == ThenUpdate(book, f2.result, f1.update)
            IN ~r12.stopped /\ ~r21.stopped =>
                  r12.panic = r21.panic /\ r12.book = r21.book

\* C6 witness: a book that already holds a level, and two snapshots from
\* distinct exchanges that both change it, neither order stopping at the cap.
C6_Witness ==
    /\ ~panicked
    /\ \E side \in Sides(book) : Len(side.data) >= 1
    /\ \E u1 \in UpdatesFrom[feed]["binance"] : \E u2 \in UpdatesFrom[feed]["bitstamp"] :
          LET r1 == AggregateBook_update(book, u1)
              r2 == AggregateBook_update(book, u2)
              r12 == ThenUpdate(book, r1, u2)
              r21 == ThenUpdate(book, r2, u1)
          IN /\ ~r12.panic /\ ~r21.panic /\ ~r12.stopped /\ ~r21.stopped
             /\ r1.book # book /\ r2.book # book
             /\ r12.book # r1.book /\ r21.book # r2.book
             /\ r12.book = r21.book

\* ---------------------------------------------------------------- C7
\* The entries of exchange e in a side, in side order, as <<price, amount>>.
RECURSIVE EntrySeqOf(_, _)
EntrySeqOf(data, e) ==
    IF data = <<>> THEN <<>>
    ELSE (IF e \in DOMAIN Head(data).exchange_levels
          THEN <<<<Head(data).price, Head(data).exchange_levels[e].amount>>>>
          ELSE <<>>) \o EntrySeqOf(Tail(data), e)

\* C7: an update whose levels all carry exchange code E leaves unchanged, in
\* every side and for every other exchange F, the (price, amount) entries
\* attributed to F; a same-price merge changes only E's entry of the level.
C7_OtherExchangesUnchanged ==
    \A u \in BookUpdates[feed] :
        LET r == AggregateBook_update(book, u) IN
        ~panicked /\ ~r.panic =>
            \A side \in Sides(book) : \A f \in Exchanges \ {u.exchange_code} :
                EntrySeqOf(SideLike(r.book, side).data, f) = EntrySeqOf(side.data, f)

\* C7 witness: an update from E merges into a level held by another exchange F
\* and withdraws E from another level that F holds too.
C7_Witness ==
    /\ ~panicked
    /\ \E u \in BookUpdates[feed] : \E side \in Sides(book) :
          LET r == AggregateBook_update(book, u)
              e == u.exchange_code
              after == SideLike(r.book, side)
          IN /\ ~r.panic
             /\ \E f \in Exchanges \ {e} :
                   /\ \E i \in 1..Len(side.data) : \E j \in 1..Len(after.data) :
                         /\ DOMAIN side.data[i].exchange_levels = {f}
                         /\ after.data[j].price = side.data[i].price
                         /\ DOMAIN after.data[j].exchange_levels = {e, f}
                   /\ \E i \in 1..Len(side.data) : \E j \in 1..Len(after.data) :
                         /\ DOMAIN side.data[i].exchange_levels = {e, f}
                         /\ after.data[j].price = side.data[i].price
                         /\ DOMAIN after.data[j].exchange_levels = {f}

\* ---------------------------------------------------------------- C8
\* The 1-based positions of a snapshot side whose level is before its predecessor.
OutOfOrderAt(side, side_update) ==
    {k \in 2..Len(side_update) :
        is_before(side, side_update[k].price, side_update[k - 1].price)}

\* C8 as claimed: whenever a side of a snapshot contains a level whose price is
\* before that of the preceding level, update panics, for every book state and
\* every max_levels (here: every max_levels >= 1).
C8_UnorderedSnapshotPanics ==
    \A u \in BookUpdates[feed] :
        /\ ~panicked
        /\ book.bids.max_levels >= 1
        /\ \E side \in Sides(book) : OutOfOrderAt(side, SideUpdateFor(side, u)) # {}
        => AggregateBook_update(book, u).panic

\* C8 as amended: update panics whenever a side of the snapshot contains a level
\* before its predecessor, unless the pass over that side stops at the depth
\* cap on an earlier level of the snapshot.
C8_UnorderedSnapshotPanicsIfReached ==
    \A u \in BookUpdates[feed] :
        ~panicked =>
            \A side \in Sides(book) :
                LET su == SideUpdateFor(side, u) IN
                \A k \in OutOfOrderAt(side, su) :
                    ~update_loop(Strategy_new, side, SubSeq(su, 1, k - 1)).stopped
                        => AggregateBook_update(book, u).panic

\* C8 witness: an update of a book that holds levels has panicked.
C8_Witness ==
    /\ panicked
    /\ \E side \in Sides(book) : Len(side.data) >= 1

\* ---------------------------------------------------------------- C9
\* C9: after every update returns, no aggregate level of either side has an
\* empty exchange mapping.
C9_NoEmptyLevel ==
    \A side \in Sides(book) :
        \A i \in 1..Len(side.data) : DOMAIN side.data[i].exchange_levels # {}

\* C9 witness: the last entry of a level is withdrawn during a pass and the
\* compaction removes the level.
C9_Witness ==
    /\ ~panicked
    /\ \E u \in BookUpdates[feed] : \E side \in Sides(book) :
          LET pass == update_loop(Strategy_new, side, SideUpdateFor(side, u))
              r == AggregateBook_update(book, u)
          IN /\ ~r.panic
             /\ \E i \in 1..Len(pass.side.data) :
                   DOMAIN pass.side.data[i].exchange_levels = {}
             /\ Len(SideLike(r.book, side).data) < Len(pass.side.data)
             /\ Len(SideLike(r.book, side).data) >= 1

\* ---------------------------------------------------------------- C10
\* The listings of one aggregate level by amount descending.
ListingsByAmount(al) ==
    {l \in ValueOrders(al) : \A i \in 1..(Len(l) - 1) : l[i].amount >= l[i + 1].amount}

\* The sequences obtained by visiting the levels of a side in side order and
\* listing the entries of each level by amount descending.
RECURSIVE Flattenings(_)
Flattenings(data) ==
    IF data = <<>> THEN {<<>>}
    ELSE {l \o rest : l \in ListingsByAmount(Head(data)), rest \in Flattenings(Tail(data))}

FirstN(s, n) == SubSeq(s, 1, Min(n, Len(s)))

\* C10: best_bids() and best_asks() return at most max_levels exchange levels:
\* the first max_levels entries of the side's levels visited in side order,
\* the entries of each level listed by amount descending.
C10_BestLevels ==
    /\ \A r \in best_bids(book) :
          /\ Len(r) <= book.bids.max_levels
          /\ r \in {FirstN(f, book.bids.max_levels) : f \in Flattenings(book.bids.data)}
    /\ \A r \in best_asks(book) :
          /\ Len(r) <= book.asks.max_levels
          /\ r \in {FirstN(f, book.asks.max_levels) : f \in Flattenings(book.asks.data)}

\* C10 witness: a side holds more entries than max_levels and its first level
\* holds two exchanges with different amounts.
C10_Witness ==
    \E side \in Sides(book) :
        /\ side.max_levels >= 2
        /\ Len(side.data) >= 2
        /\ \A r \in best_levels_of_every_level(side) : Len(r) > side.max_levels
        /\ \E e, f \in DOMAIN side.data[1].exchange_levels :
              side.data[1].exchange_levels[e].amount > side.data[1].exchange_levels[f].amount
        /\ Cardinality(best_levels(side)) = 1

\* ---------------------------------------------------------------- C11
\* Entry x may come before entry y in the bids of a Summary: x has the higher
\* price, or the same price, another exchange and no smaller amount.
BidEntriesInOrder(x, y) ==
    \/ x.price > y.price
    \/ x.price = y.price /\ x.exchange # y.exchange /\ x.amount >= y.amount

AskEntriesInOrder(x, y) ==
    \/ x.price < y.price
    \/ x.price = y.price /\ x.exchange # y.exchange /\ x.amount >= y.amount

\* C11: in every Summary made after any sequence of accepted updates, the
\* bids are strictly decreasing in price and the asks strictly increasing
\* (entries of one price belong to one level, one entry an exchange), and
\* among the entries of one price the amounts are non-increasing.
C11_SummaryOrdered ==
    ~panicked =>
        \A s \in make_summary(book) :
            /\ \A i \in 1..(Len(s.bids) - 1) : BidEntriesInOrder(s.bids[i], s.bids[i + 1])
            /\ \A i \in 1..(Len(s.asks) - 1) : AskEntriesInOrder(s.asks[i], s.asks[i + 1])

\* ---------------------------------------------------------------- C12
\* C12: for every Summary built from a book, spread is NaN if and only if the
\* bids or the asks of the Summary are empty; otherwise it is the price of the
\* first best ask minus the price of the first best bid.
C12_Spread ==
    \A s \in make_summary(book) :
        /\ s.spread = NAN <=> (s.bids = <<>> \/ s.asks = <<>>)
        /\ s.spread # NAN =>
              /\ s.spread = Finite(to_f64(book.asks.data[1].price - book.bids.data[1].price))
              /\ s.spread = Finite(s.asks[1].price - s.bids[1].price)

\* C12 witness: both sides hold levels, the best prices differ and the book is
\* crossed or not; a Summary of it has a spread that is not NaN and not zero.
C12_Witness ==
    /\ Len(book.bids.data) >= 1 /\ Len(book.asks.data) >= 1
    /\ \E s \in make_summary(book) : s.spread # NAN /\ s.spread # Finite(0)

\* ---------------------------------------------------------------- C13
\* The book after the updates us are applied in order to book b, and whether
\* one of them panicked.
RECURSIVE BookAfter(_, _)
BookAfter(b, us) ==
    IF us = <<>> THEN [book |-> b, panic |-> FALSE]
    ELSE LET r == AggregateBook_update(b, Head(us))
         IN IF r.panic THEN [book |-> b, panic |-> TRUE]
            ELSE BookAfter(r.book, Tail(us))

\* The k-th Summary is one made from the book after exactly the first k pulled
\* updates were applied, in arrival order, to the new book.
KthSummaryFromFirstK(k) ==
    LET after == BookAfter(AggregateBook_new(book.bids.max_levels), SubSeq(pulled, 1, k))
    IN ~after.panic /\ summaries[k] \in make_summary(after.book)

\* C13 as claimed: every update pulled from the update stream produces exactly
\* one Summary, and the k-th Summary is computed from the book after exactly the
\* first k updates were applied in arrival order.
C13_OneSummaryPerUpdate ==
    /\ Len(summaries) = Len(pulled)
    /\ \A k \in 1..Len(pulled) : KthSummaryFromFirstK(k)

\* C13 as amended: every pulled update whose application does not panic
\* produces exactly one Summary, the k-th Summary being computed from the book
\* after exactly the first k updates; the update whose application panics
\* produces none and is the last one pulled.
C13_OneSummaryPerAcceptedUpdate ==
    /\ Len(summaries) = (IF panicked THEN Len(pulled) - 1 ELSE Len(pulled))
    /\ \A k \in 1..Len(summaries) : KthSummaryFromFirstK(k)
    /\ panicked => BookAfter(AggregateBook_new(book.bids.max_levels), pulled).panic

\* C13 witness: the second update pulled left both sides of the book as they
\* were, not empty, and a second Summary, equal to the first, was produced.
C13_Witness ==
    /\ ~panicked
    /\ Len(pulled) = 2 /\ Len(summaries) = 2
    /\ summaries[1] = summaries[2]
    /\ summaries[2].bids # <<>>
    /\ pulled[1] # pulled[2]
    /\ BookAfter(AggregateBook_new(book.bids.max_levels), <<pulled[1]>>).book = book

\* ---------------------------------------------------------------- C14
\* C14: the updates of one session reach the subscriber's book in the order
\* the session decoded them: each update of session s applied to the book is
\* the one decoded next after the last update of s applied before it, for any
\* number of sessions and any interleaving with the updates of the others.
C14_SessionFifo ==
    [][\A s \in Adapters :
          applied'[s] # applied[s] => applied'[s] = (applied[s] + 1) % SeqCycle]_vars

\* C14 witness: three sessions; the second update of session 1 and then the
\* first of session 3 were applied while session 2 has two updates queued and
\* session 1 a third waiting.
C14_Witness ==
    /\ Len(session) = 3
    /\ applied[1] = 1 /\ applied[3] = 0 /\ applied[2] = SeqCycle - 1
    /\ Len(data_channel[2]) = 2
    /\ data_channel[1] # <<>> /\ Head(data_channel[1]).seq = 2

\* ---------------------------------------------------------------- C15
\* Update n of session s is the oldest of the data channel of s.
ReadyAtHead(s, n) ==
    IF s \in Adapters /\ data_channel[s] # <<>>
    THEN Head(data_channel[s]).seq = n ELSE FALSE

\* Update n of session s was the last of s the multiplexed stream yielded.
Yielded(s, n) == IF s \in Adapters THEN applied[s] = n ELSE FALSE

\* C15: while the consumer keeps pulling, an update that is ready at the head
\* of the data channel of a session is eventually yielded by the multiplexed
\* stream (and applied), whatever the other sessions have ready: no session of
\* the left fold of selects is starved.
C15_NoStarvation ==
    \A s \in 1..MaxSessions : \A n \in 0..(FairSeqCycle - 1) :
        ReadyAtHead(s, n) ~> Yielded(s, n)

\* C15 witness: three sessions all have updates ready, and the last update
\* applied came from session 1, the deepest leaf of the fold.
C15_Witness ==
    /\ Len(session) = 3
    /\ \A s \in Adapters : Len(data_channel[s]) = DataCapacity
    /\ applied[1] = 1 /\ applied[2] = 0 /\ applied[3] = 1
    /\ Head(data_channel[2]).seq = 1

\* ---------------------------------------------------------------- C16
\* A Close command was enqueued on the command channel of adapter s: it is in
\* the channel, or the task has received it and ended.
CloseEnqueued(s) ==
    \/ command_channel[s] = <<"Close">>
    \/ session[s].pc = "terminated"

\* The fan-out task has run ExchangeDataStream::disconnect to completion.
DisconnectCompleted == subscriber # "none" /\ fanout.pc = "done"

\* C16: ExchangeDataStream::disconnect on a stream built from K adapters
\* enqueues exactly one Close command on the command channel of each of the K
\* leaf sessions, for every K >= 1.
C16_CloseOnEveryLeaf ==
    DisconnectCompleted =>
        \A s \in Adapters : CloseEnqueued(s) /\ Len(command_channel[s]) <= 1

\* ---------------------------------------------------------------- C17
\* C17: when ExchangeDataStream::disconnect completes, the task of every leaf
\* session has terminated.
C17_DisconnectAwaitsTermination ==
    DisconnectCompleted => \A s \in Adapters : TaskEnded(s)

\* ---------------------------------------------------------------- C18
\* The Close command reached every leaf session.
CloseDelivered ==
    IF subscriber = "none" THEN FALSE ELSE \A s \in Adapters : CloseEnqueued(s)

\* C18: after the subscriber drops its receiving end, the fan-out task
\* eventually terminates and the recursive shutdown delivers Close to every
\* leaf session of the subscriber.
C18_DropLeadsToShutdown ==
    (subscriber = "dropped") ~> (fanout.pc = "done" /\ CloseDelivered)

\* ---------------------------------------------------------------- C19
\* C19: when opening the transport or sending the subscription fails, on the
\* first connection or on a reconnection, the session enters RECONNECTING: the
\* task stays alive and sleeps the fixed delay before it connects again.
C19_ConnectFailureReconnects ==
    [][\A s \in Adapters :
          (\E outcome \in ConnectOutcomes \ {"ok"} : connect(s, outcome))
              => session'[s].pc = "sleeping"]_vars

\* ---------------------------------------------------------------- C20
\* C20: when a LIVE session receives a text frame that the decoder classifies
\* as a reconnection request, the session leaves the connection and enters
\* RECONNECTING (or ends, on a Close command), to connect and subscribe again:
\* it does not go on reading the connection on which the request arrived.
C20_ReconnectionRequestReconnects ==
    \A s \in Adapters :
        session[s].frame = "reconnection_request" =>
            session[s].pc \in {"sleeping", "connecting", "terminated"}

\* ---------------------------------------------------------------- C21
\* C21: a LIVE session answers a Ping with a Pong before it reads the next
\* frame, and a session whose Pong could not be sent enters RECONNECTING (or
\* ends, on a Close command): it does not go on reading the connection.
C21_PongFailureReconnects ==
    \A s \in Adapters :
        session[s].frame = "ping_pong_fails" =>
            session[s].pc \in {"sleeping", "connecting", "terminated"}

\* ---------------------------------------------------------------- C22
\* C22: a LIVE session whose transport is closed, yields an I/O error or
\* reaches the end of the frame stream leaves LIVE and sleeps the reconnection
\* delay (or ends, on a Close command): it never stays LIVE on a dead
\* transport.
C22_DeadTransportReconnects ==
    \A s \in Adapters :
        session[s].frame \in {"closed_or_io_error", "end_of_stream"} =>
            session[s].pc \in {"sleeping", "connecting", "terminated"}

\* ---------------------------------------------------------------- C23
\* C23: a session that takes a Close command from its command channel closes
\* the socket and ends its task; a task ended so never connects again and
\* never queues another update.
C23_CloseTerminates ==
    [][\A s \in Adapters :
          /\ (command_channel[s] # <<>> /\ command_channel'[s] = <<>>
                  /\ session'[s].pc # "panicked")
                => session'[s].pc = "terminated"
          /\ session[s].pc = "terminated"
                => /\ session'[s] = session[s]
                   /\ Len(data_channel'[s]) <= Len(data_channel[s])]_vars

\* C23 witness: a session that had queued an update took the Close command of
\* the shutdown and ended, while the other session is still connected.
C23_Witness ==
    /\ Len(session) = 2
    /\ session[1].pc = "terminated" /\ session[1].frame = "data"
    /\ session[2].pc = "live"
    /\ fanout.pc = "done"

\* ---------------------------------------------------------------- C24
\* A Close command waits in the command channel of adapter s.
ClosePending(s) ==
    IF s \in Adapters THEN command_channel[s] # <<>> ELSE FALSE

\* The task of adapter s has ended, by Close or by a panic.
Ended(s) == IF s \in Adapters THEN TaskEnded(s) ELSE FALSE

Pending(s) == data_channel[s] \o session[s].held

\* C25: the data channel of a session never holds more than its capacity; a
\* session whose send found the channel full is suspended with the update in
\* hand and decodes no further frame until the send resumes; and while the
\* receiver is open no decoded update is discarded: the updates of a session
\* after the last one the consumer received are all pending, in order.
C25_Backpressure ==
    /\ [](\A s \in Adapters :
            /\ Len(data_channel[s]) <= DataCapacity
            /\ (session[s].held # None) = (session[s].pc = "sending")
            /\ \A i \in 1..Len(Pending(s)) :
                  Pending(s)[i] = Data(s, (applied[s] + i) % SeqCycle)
            /\ session[s].seq = (applied[s] + Len(Pending(s)) + 1) % SeqCycle)
    /\ [][\A s \in Adapters :
            session[s].pc = "sending" => session'[s].seq = session[s].seq]_vars

\* C25 witness: the data channel of a session is full and the session is
\* suspended on the send of one more update.
C25_Witness ==
    \E s \in Adapters :
        /\ Len(data_channel[s]) = DataCapacity
        /\ session[s].pc = "sending"
        /\ Len(Pending(s)) = DataCapacity + 1

\* ---------------------------------------------------------------- C26
\* The transport of session s has failed: its connection attempt panicked the
\* task, or its connection broke and the task sleeps before reconnection.
TransportFailed(s) ==
    IF s \in Adapters THEN session[s].pc \in {"panicked", "sleeping"} ELSE FALSE

\* C26: a transport failure in one session does not stop delivery from the
\* others: while the consumer keeps pulling, an update that another session
\* has at the head of its data channel is eventually yielded by the
\* multiplexed stream.
C26_FailureIsLocal ==
    \A s \in 1..MaxPipelineSessions : \A t \in (1..MaxPipelineSessions) \ {s} :
        \A n \in 0..(FairSeqCycle - 1) :
            (TransportFailed(s) /\ ReadyAtHead(t, n)) ~> Yielded(t, n)

\* C26 witness: the task of session 1 has panicked in connect while session 2
\* has filled its data channel and the multiplexed stream has yet to yield
\* the update at its head.
C26_Witness ==
    /\ Len(session) = 2
    /\ session[1].pc = "panicked"
    /\ Len(data_channel[2]) = DataCapacity
    /\ ReadyAtHead(2, 0) /\ applied[2] = 1

\* ---------------------------------------------------------------- C27
\* C27: the decoder is total: for every text frame, also one of the shape of a
\* book update whose price or amount strings are not decimal numbers, it
\* returns Data, ReconnectionRequest or None and never panics.
C27_DecoderTotal ==
    receiver = "bitstamp" => decoded.kind \in {"idle", "Data", "ReconnectionRequest", "None"}

\* ---------------------------------------------------------------- C28
\* C28: subscribers share nothing.  A call of book_summary gives the new
\* subscriber its own running sessions and its own empty book and leaves every
\* other subscriber as it was; an update applied for, the disconnection of, or
\* the panic of one subscriber changes the book, sessions and Summaries of no
\* other subscriber.
C28_SubscribersShareNothing ==
    [][/\ Len(subscribers') > Len(subscribers) =>
            /\ subscribers'[Len(subscribers')] = new_subscriber
            /\ \A j \in 1..Len(subscribers) : subscribers'[j] = subscribers[j]
       /\ \A i \in 1..Len(subscribers) : \A j \in (1..Len(subscribers)) \ {i} :
            subscribers'[i] # subscribers[i] => subscribers'[j] = subscribers[j]]_vars

\* C28 witness: the update of the first subscriber panicked, the second has
\* been sent the Summary of an update of its own, and its sessions run.
C28_Witness ==
    /\ Len(subscribers) = 2
    /\ subscribers[1].fanout = "panicked"
    /\ subscribers[2].fanout = "streaming"
    /\ subscribers[2].summaries = 1
    /\ subscribers[2].book # AggregateBook_new(NUM_LEVELS)

\* ---------------------------------------------------------------- C29
\* The side is full (it holds max_levels levels, at least one) and every price
\* of the non-empty snapshot side is after the last price of the side.
BeyondFullSide(side, side_update) ==
    /\ Len(side.data) = side.max_levels
    /\ Len(side.data) > 0
    /\ side_update # <<>>
    /\ \A i \in 1..Len(side_update) :
          is_before(side, side.data[Len(side.data)].price, side_update[i].price)

\* The levels of a side without the entries of exchange e, in order, the levels
\* that held no other entry left out.
RECURSIVE WithoutExchange(_, _)
WithoutExchange(data, e) ==
    IF data = <<>> THEN <<>>
    ELSE LET rest == WithoutExchange(Tail(data), e)
             others == DOMAIN Head(data).exchange_levels \ {e}
         IN IF others = {} THEN rest
            ELSE <<[Head(data) EXCEPT !.exchange_levels =
                       [k \in others |-> Head(data).exchange_levels[k]]]>> \o rest

\* C29 as stated: a snapshot entirely after the last price of a full side has
\* no effect on the side; all its levels and all their exchange entries are
\* unchanged and no snapshot level is added.
C29_BeyondFullSideNoEffect ==
    \A u \in BookUpdates[feed] : \A side \in Sides(book) :
        BeyondFullSide(side, SideUpdateFor(side, u)) =>
            LET r == update_side(side, SideUpdateFor(side, u))
            IN ~r.panic /\ r.side = side

\* C29, amended: a snapshot of exchange E entirely after the last price of a
\* full side adds no level and changes no entry of another exchange, but it
\* withdraws every entry of E from the side and the levels this empties are
\* removed; the side is unchanged exactly when it held no entry of E.
C29_BeyondFullSideWithdrawsOnly ==
    \A u \in BookUpdates[feed] : \A side \in Sides(book) :
        BeyondFullSide(side, SideUpdateFor(side, u)) =>
            LET r == update_side(side, SideUpdateFor(side, u))
            IN /\ ~r.panic
               /\ r.side = [side EXCEPT !.data = WithoutExchange(@, u.exchange_code)]
               /\ EntriesOf(r.side, u.exchange_code) = {}
               /\ \A e \in Exchanges \ {u.exchange_code} :
                     EntriesOf(r.side, e) = EntriesOf(side, e)
               /\ (r.side = side) <=> (EntriesOf(side, u.exchange_code) = {})

\* C29 witness: a full side whose last level holds entries of both exchanges,
\* and a snapshot of bitstamp entirely after the price of that level.
C29_Witness ==
    /\ ~panicked
    /\ \E side \in Sides(book) :
          /\ StrictlyOrdered(side)
          /\ Len(side.data) > 0
          /\ DOMAIN side.data[Len(side.data)].exchange_levels = Exchanges
          /\ \E u \in UpdatesFrom[feed]["bitstamp"] :
                /\ BeyondFullSide(side, SideUpdateFor(side, u))
                /\ Len(update_side(side, SideUpdateFor(side, u)).side.data) = Len(side.data)

\* ---------------------------------------------------------------- C30
\* The prices of the levels of a side.
SidePrices(side) == {side.data[i].price : i \in 1..Len(side.data)}

\* The side holds no entry of exchange e, and side_update is a strictly ordered
\* snapshot side of e whose prices, with those of the side, are at most
\* max_levels distinct prices.
UnionFits(side, e, side_update) ==
    /\ EntriesOf(side, e) = {}
    /\ \A i \in 1..Len(side_update) : side_update[i].exchange_code = e
    /\ StrictSnapshotSide(side.ordering, side_update)
    /\ Cardinality(SidePrices(side) \cup PricesOf(side_update)) <= side.max_levels

\* result is the order-preserving sorted union of side and side_update: its
\* prices are those of both, strictly ranked; a level holds the entries the
\* side had at its price and the snapshot level of that price.
SortedUnion(result, side, e, side_update) ==
    /\ result.ordering = side.ordering
    /\ result.max_levels = side.max_levels
    /\ StrictlyOrdered(result)
    /\ SidePrices(result) = SidePrices(side) \cup PricesOf(side_update)
    /\ \A i \in 1..Len(side.data) : \E j \in 1..Len(result.data) :
          /\ result.data[j].price = side.data[i].price
          /\ \A k \in DOMAIN side.data[i].exchange_levels :
                /\ k \in DOMAIN result.data[j].exchange_levels
                /\ result.data[j].exchange_levels[k] = side.data[i].exchange_levels[k]
    /\ \A i \in 1..Len(side_update) : \E j \in 1..Len(result.data) :
          /\ result.data[j].price = side_update[i].price
          /\ e \in DOMAIN result.data[j].exchange_levels
          /\ result.data[j].exchange_levels[e] = side_update[i]
    /\ \A j \in 1..Len(result.data) : \A k \in DOMAIN result.data[j].exchange_levels :
          \/ k = e /\ \E i \in 1..Len(side_update) : side_update[i] = result.data[j].exchange_levels[k]
          \/ k # e /\ \E i \in 1..Len(side.data) :
                /\ side.data[i].price = result.data[j].price
                /\ k \in DOMAIN side.data[i].exchange_levels
                /\ side.data[i].exchange_levels[k] = result.data[j].exchange_levels[k]

\* C30: for a side that holds no entry of exchange E and a strictly ordered
\* snapshot of E such that side and snapshot have at most N distinct prices
\* together, update_side returns the order-preserving sorted union.
C30_SortedUnion ==
    \A u \in BookUpdates[feed] : \A side \in Sides(book) :
        UnionFits(side, u.exchange_code, SideUpdateFor(side, u)) =>
            LET r == update_side(side, SideUpdateFor(side, u))
            IN ~r.panic /\ SortedUnion(r.side, side, u.exchange_code, SideUpdateFor(side, u))

\* ---------------------------------------------------------------- C31
\* The cursor of a pass at index i (0-based) before its first level.
CursorAt(i) == [current_index |-> i, prev_update_price |-> None]

\* The levels an exchange can send.
ExchangeLevels == {ExchangeLevel(e, p, a) : e \in Exchanges, p \in Prices, a \in Amounts}

\* The sum of the amounts of the entries of an aggregate level.
RECURSIVE SumOver(_, _)
SumOver(al, keys) ==
    IF keys = {} THEN 0
    ELSE LET k == CHOOSE x \in keys : TRUE
         IN al.exchange_levels[k].amount + SumOver(al, keys \ {k})

LevelTotal(al) == SumOver(al, DOMAIN al.exchange_levels)

\* C31: when an update level has the price of the aggregate level under the
\* cursor, apply sets the level's entry of the update's exchange to the update
\* (replacing a prior entry of that exchange, not adding to it) and changes
\* nothing else: the level holds one entry for each of its exchanges and its
\* total is the sum of the other exchanges' amounts and the update's amount.
C31_MergeReplacesEntry ==
    \A side \in Sides(book) : \A i \in 0..(Len(side.data) - 1) :
        \A level_update \in ExchangeLevels :
            level_update.price = side.data[i + 1].price =>
                LET r == apply(CursorAt(i), side, level_update)
                    before == side.data[i + 1]
                    after == r.side.data[i + 1]
                    others == DOMAIN before.exchange_levels \ {level_update.exchange_code}
                IN /\ ~r.panic /\ r.ret
                   /\ r.st.current_index = i + 1
                   /\ Len(r.side.data) = Len(side.data)
                   /\ \A j \in (1..Len(side.data)) \ {i + 1} : r.side.data[j] = side.data[j]
                   /\ after.price = before.price
                   /\ DOMAIN after.exchange_levels = others \cup {level_update.exchange_code}
                   /\ after.exchange_levels[level_update.exchange_code] = level_update
                   /\ \A k \in others : after.exchange_levels[k] = before.exchange_levels[k]
                   /\ LevelTotal(after) = SumOver(before, others) + level_update.amount

\* C31 witness: a level holds an entry of each exchange, the one of binance of
\* amount 1, so that a binance update of amount 2 at its price replaces it.
C31_Witness ==
    /\ ~panicked
    /\ \E side \in Sides(book) : \E i \in 1..Len(side.data) :
          /\ DOMAIN side.data[i].exchange_levels = Exchanges
          /\ side.data[i].exchange_levels["binance"].amount = 1
          /\ ExchangeLevel("binance", side.data[i].price, 2) \in ExchangeLevels

\* ---------------------------------------------------------------- C32
\* The number of levels of a side that hold an entry of exchange e.
EntryCount(side, e) ==
    Cardinality({j \in 1..Len(side.data) : e \in DOMAIN side.data[j].exchange_levels})

\* C32: with the cursor at the end of a side that holds at least max_levels
\* levels, the pass stops: apply returns false and the side is left as it is
\* whatever levels remain; and a pass of update_side that stopped has
\* materialized exactly the snapshot levels before the one it stopped at, which
\* are kept, and changed no entry of another exchange.
C32_StopsAtTheCap ==
    \A u \in BookUpdates[feed] : \A side \in Sides(book) :
        LET side_update == SideUpdateFor(side, u)
            r == update_side(side, side_update)
        IN /\ (Len(side.data) >= side.max_levels /\ side_update # <<>>) =>
                update_loop(CursorAt(Len(side.data)), side, side_update)
                    = [side |-> side, panic |-> FALSE, stopped |-> TRUE]
           /\ (~r.panic /\ r.stopped) =>
                /\ \E k \in 0..(Len(side_update) - 1) :
                      /\ EntriesOf(r.side, u.exchange_code) = LevelsOf(SubSeq(side_update, 1, k))
                      /\ EntryCount(r.side, u.exchange_code) = k
                /\ \A e \in Exchanges \ {u.exchange_code} :
                      EntriesOf(r.side, e) = EntriesOf(side, e)

\* C32 witness: a snapshot of two levels whose pass over a side that holds
\* levels materializes the first level and stops at the second.
C32_Witness ==
    /\ ~panicked
    /\ \E u \in BookUpdates[feed] : \E side \in Sides(book) :
          LET side_update == SideUpdateFor(side, u)
              r == update_side(side, side_update)
          IN /\ Len(side_update) = 2
             /\ Len(side.data) > 0
             /\ ~r.panic /\ r.stopped
             /\ EntriesOf(r.side, u.exchange_code) = LevelsOf(SubSeq(side_update, 1, 1))
             /\ r.side # side

\* ---------------------------------------------------------------- C33
\* The side that AggregateBookSide::new is given.
GivenSide == [ordering |-> given.ordering, max_levels |-> NUM_LEVELS, data |-> given.data]

\* C33: constructing an AggregateBookSide from a list of levels fails whenever
\* the prices of the levels are not strictly ordered under the ranking of the
\* side, for lists of any length.
C33_ConstructorChecksRanking ==
    (constructed.kind # "idle" /\ ~StrictlyOrdered(GivenSide)) => constructed.kind = "panic"

\* ---------------------------------------------------------------- C34
\* C34: every BookUpdate an exchange decoder produces has at most NUM_LEVELS
\* levels on each side, and it and each of its levels carry the exchange code
\* of the decoder.
C34_DecodedWithinDepth ==
    decoded.kind = "Data" =>
        /\ Len(decoded.data[1].bids) <= NUM_LEVELS
        /\ Len(decoded.data[1].asks) <= NUM_LEVELS
        /\ decoded.data[1].exchange_code = receiver
        /\ \A i \in 1..Len(decoded.data[1].bids) :
              decoded.data[1].bids[i].exchange_code = receiver
        /\ \A i \in 1..Len(decoded.data[1].asks) :
              decoded.data[1].asks[i].exchange_code = receiver

\* ---------------------------------------------------------------- C35
\* C35: during a pass of update_side the cursor satisfies
\* 0 <= current_index <= len(side) before and after every step, so every access
\* side[current_index] of apply is within bounds, for every side and snapshot.
C35_CursorWithinSide ==
    \A u \in BookUpdates[feed] : \A side \in Sides(book) :
        \A c \in pass_cursors(Strategy_new, side, SideUpdateFor(side, u)) :
            0 <= c[1] /\ c[1] <= c[2]

\* C35 witness: a pass over a side of two levels whose cursor goes from the
\* head of the side to its end.
C35_Witness ==
    /\ ~panicked
    /\ \E u \in BookUpdates[feed] : \E side \in Sides(book) :
          /\ Len(side.data) = 2
          /\ {<<0, 2>>, <<1, 2>>, <<2, 2>>}
                \subseteq pass_cursors(Strategy_new, side, SideUpdateFor(side, u))

\* ---------------------------------------------------------------- C36
\* The cursor of the retry that follows the drain of level_update.
RetryCursor(d, level_update) ==
    [current_index |-> d.current_index, prev_update_price |-> Some(level_update.price)]

\* C36: update_side terminates.  Whenever apply drains, at any cursor position
\* of any side, the cursor has advanced by at least one level and stays within
\* the side when apply retries the same update level, and the retry resolves
\* as append, stop, insert or merge, without a second drain.
C36_RetryResolves ==
    \A side \in Sides(book) : \A i \in 0..Len(side.data) :
        \A level_update \in ExchangeLevels :
            apply_branch(CursorAt(i), side, level_update) = "drain" =>
                LET d == drain(side, i, level_update)
                IN /\ d.current_index > i
                   /\ d.current_index <= Len(d.side.data)
                   /\ Len(d.side.data) = Len(side.data)
                   /\ apply_branch(RetryCursor(d, level_update), d.side, level_update)
                        \in {"append", "stop", "insert", "merge"}

\* C36 witness: a drain over the two levels of a side, after which the retry
\* finds the cursor at the end of the side.
C36_Witness ==
    /\ ~panicked
    /\ \E side \in Sides(book) : \E level_update \in ExchangeLevels :
          /\ Len(side.data) = 2
          /\ apply_branch(CursorAt(0), side, level_update) = "drain"
          /\ drain(side, 0, level_update).current_index = 2

\* ---------------------------------------------------------------- C37
\* The prices of a snapshot side never go back under the ranking.
NeverGoesBack(ordering, side_update) ==
    \A i \in 1..(Len(side_update) - 1) :
        IF ordering = "LessFirst"
        THEN side_update[i].price <= side_update[i + 1].price
        ELSE side_update[i].price >= side_update[i + 1].price

\* C37: the price-equality assertion of AggregateLevel::update never fails in
\* a call made from update_side: wherever apply takes its merge branch the
\* update has the price of the level under the cursor, so a pass panics only
\* on a snapshot whose prices go back.
C37_MergeNeverMismatches ==
    /\ \A side \in Sides(book) : \A i \in 0..Len(side.data) :
          \A level_update \in ExchangeLevels :
              apply_branch(CursorAt(i), side, level_update) = "merge" =>
                  ~AggregateLevel_update_panics(side.data[i + 1], level_update)
    /\ \A u \in BookUpdates[feed] : \A side \in Sides(book) :
          update_side(side, SideUpdateFor(side, u)).panic =>
              ~NeverGoesBack(side.ordering, SideUpdateFor(side, u))

\* C37 witness: a pass merges its second level into the second level of the
\* side, which holds an entry of the other exchange.
C37_Witness ==
    /\ ~panicked
    /\ \E u \in UpdatesFrom[feed]["bitstamp"] : \E side \in Sides(book) :
          /\ Len(side.data) = 2
          /\ Len(SideUpdateFor(side, u)) = 2
          /\ DOMAIN side.data[2].exchange_levels = {"binance"}
          /\ apply_branch(CursorAt(1), side, SideUpdateFor(side, u)[2]) = "merge"
          /\ ~update_side(side, SideUpdateFor(side, u)).panic
          /\ DOMAIN update_side(side, SideUpdateFor(side, u)).side.data[2].exchange_levels
                = Exchanges

\* ---------------------------------------------------------------- C38
\* C38: in every reachable book every entry of every aggregate level is
\* consistent with its position: the entry under exchange key k has
\* exchange_code k and the price of the aggregate level that holds it.
C38_EntriesConsistent ==
    \A side \in Sides(book) : \A i \in 1..Len(side.data) :
        \A k \in DOMAIN side.data[i].exchange_levels :
            /\ side.data[i].exchange_levels[k].exchange_code = k
            /\ side.data[i].exchange_levels[k].price = side.data[i].price

\* C38 witness: a side of two levels, one of which holds an entry of each
\* exchange after a merge.
C38_Witness ==
    /\ ~panicked
    /\ \E side \in Sides(book) :
          /\ Len(side.data) = 2
          /\ side.data[1].price # side.data[2].price
          /\ DOMAIN side.data[1].exchange_levels = Exchanges
          /\ DOMAIN side.data[2].exchange_levels = {"bitstamp"}

\* ---------------------------------------------------------------- C39
\* The fan-out task of the subscriber has ended: it ran disconnect to
\* completion, or a panic unwound it.
FanoutEnded == fanout.pc \in {"done", "panicked"}

\* C39: whenever the fan-out task of a subscriber ends, for whatever reason,
\* every exchange session started for the subscriber eventually receives Close
\* and terminates.
C39_NoSessionOutlivesSubscriber ==
    FanoutEnded ~> (\A s \in Adapters : session[s].pc = "terminated")

\* ---------------------------------------------------------------- C40
\* C40: the multiplexed input stream never signals the end of the stream: the
\* leaf of a session whose task ended, its data channel closed and empty,
\* reports Pending in every state from then on, so the loop of the fan-out task
\* leaves towards disconnect only through a failed send to the subscriber.
C40_NeverEndOfStream ==
    /\ [](/\ ~ExchangeDataStream_finished
          /\ \A s \in Adapters :
                (TaskEnded(s) /\ data_channel[s] = <<>>) =>
                    ExchangeAdapterStream_poll_next(s) = "Pending")
    /\ [][(fanout.pc # "disconnect" /\ fanout'.pc = "disconnect") =>
              subscriber = "dropped"]_vars

\* C40 witness: the task of every session of the subscriber has ended and
\* their data channels are empty, and the fan-out task, its client still
\* listening, is parked on the stream.
C40_Witness ==
    /\ Len(session) = 2
    /\ \A s \in Adapters : TaskEnded(s) /\ data_channel[s] = <<>>
    /\ fanout.pc = "parked"
    /\ subscriber = "listening"

====
